---------------------------- MODULE Spec2Model ----------------------------
(***************************************************************************)
(* Model of the Birmingham knowledge-graph builder                         *)
(* (src/Neo4jKG/kgbuilder.py): connection, clearing of the store, record   *)
(* normalisation, deduplication and the batched, retried upsert of         *)
(* entities and relationships into the graph store; and of the             *)
(* collaboration and trend analytics (src/RAG/collaboration.py) and of the *)
(* research workflow that calls them (src/LLMpoweredRAG.py).               *)
(*                                                                         *)
(* Python values are modelled as follows.  A dict is a function from its   *)
(* keys (strings) to values; a missing key is a key outside DOMAIN.  A     *)
(* list is a sequence.  A str is a TLA+ string (Len, SubSeq and \o act on  *)
(* strings as on sequences of characters).  Where the code tests the type  *)
(* of a JSON value the value carries a tag: affilname is JStr(s) or JNull, *)
(* affiliation and author are JList(l) or JObj(d).                         *)
(***************************************************************************)
EXTENDS Integers, Sequences, FiniteSets, TLC

(***************************************************************************)
(* Bounds of the model.                                                    *)
(***************************************************************************)
\* Longest corpus (list of raw papers) handed to process_papers.
MaxPapers == 2

\* The source writes nodes and relationships in slices of batch_size = 1000
\* (kgbuilder.py line 355) and CO_AUTHOR edges in slices of small_batch = 500
\* (line 457).  The model scales both down so that one kind spans several
\* batches with corpora of MaxPapers papers.
batch_size == 2

small_batch == 1

\* clear_database deletes nodes in batches of 1000 (kgbuilder.py line 95) and
\* halves the batch on a memory failure, never below 100 (line 113).  The
\* model scales both down to the stores that corpora of MaxPapers papers
\* leave.
ClearBatch == 4

MinClearBatch == 1

(***************************************************************************)
(* Strings.                                                                *)
(***************************************************************************)
\* str.lower() on one character.
LowerChar(c) ==
    CASE c = "A" -> "a" [] c = "B" -> "b" [] c = "C" -> "c" [] c = "D" -> "d"
      [] c = "E" -> "e" [] c = "F" -> "f" [] c = "G" -> "g" [] c = "H" -> "h"
      [] c = "I" -> "i" [] c = "J" -> "j" [] c = "K" -> "k" [] c = "L" -> "l"
      [] c = "M" -> "m" [] c = "N" -> "n" [] c = "O" -> "o" [] c = "P" -> "p"
      [] c = "Q" -> "q" [] c = "R" -> "r" [] c = "S" -> "s" [] c = "T" -> "t"
      [] c = "U" -> "u" [] c = "V" -> "v" [] c = "W" -> "w" [] c = "X" -> "x"
      [] c = "Y" -> "y" [] c = "Z" -> "z" [] OTHER -> c

\* str.lower()
RECURSIVE Lower(_)
Lower(s) ==
    IF Len(s) = 0 THEN ""
    ELSE IF Len(s) = 1 THEN LowerChar(s)
    ELSE Lower(SubSeq(s, 1, Len(s) \div 2)) \o Lower(SubSeq(s, Len(s) \div 2 + 1, Len(s)))

\* `sub in s` for two str values.
Contains(sub, s) ==
    \E i \in 1..(Len(s) - Len(sub) + 1) : SubSeq(s, i, i + Len(sub) - 1) = sub

\* s.replace(old, new), old non-empty: leftmost non-overlapping occurrences.
RECURSIVE Replace(_, _, _)
Replace(s, old, new) ==
    IF Len(s) < Len(old) THEN s
    ELSE IF SubSeq(s, 1, Len(old)) = old
         THEN new \o Replace(SubSeq(s, Len(old) + 1, Len(s)), old, new)
         ELSE SubSeq(s, 1, 1) \o Replace(SubSeq(s, 2, Len(s)), old, new)

\* The value of a decimal digit, -1 for any other character.
DigitValue(c) ==
    CASE c = "0" -> 0 [] c = "1" -> 1 [] c = "2" -> 2 [] c = "3" -> 3
      [] c = "4" -> 4 [] c = "5" -> 5 [] c = "6" -> 6 [] c = "7" -> 7
      [] c = "8" -> 8 [] c = "9" -> 9 [] OTHER -> -1

\* Whether int(s) returns (a non-empty string of decimal digits) rather than
\* raising ValueError.
IsNumeric(s) ==
    /\ Len(s) > 0
    /\ \A i \in 1..Len(s) : DigitValue(SubSeq(s, i, i)) >= 0

\* int(s) for a string of decimal digits.
RECURSIVE IntOf(_)
IntOf(s) ==
    IF Len(s) = 0 THEN 0
    ELSE 10 * IntOf(SubSeq(s, 1, Len(s) - 1)) + DigitValue(SubSeq(s, Len(s), Len(s)))

\* s < t in Python's order of str, for strings of decimal digits.
RECURSIVE StrLess(_, _)
StrLess(s, t) ==
    IF Len(t) = 0 THEN FALSE
    ELSE IF Len(s) = 0 THEN TRUE
    ELSE LET a == DigitValue(SubSeq(s, 1, 1))
             b == DigitValue(SubSeq(t, 1, 1))
         IN  IF a # b THEN a < b
             ELSE StrLess(SubSeq(s, 2, Len(s)), SubSeq(t, 2, Len(t)))

\* min(a, b) and max(a, b)
Min(a, b) == IF a < b THEN a ELSE b

Max(a, b) == IF a > b THEN a ELSE b

\* dict.get(key, default)
Get(d, key, default) == IF key \in DOMAIN d THEN d[key] ELSE default

\* A JSON string and JSON null, for a field whose value may be null.
JStr(s) == [t |-> "str", v |-> s]

JNull == [t |-> "null"]


\* The fields affiliation and author hold a JSON array or a single JSON
\* object: JList(<<d1, ..., dn>>) or JObj(d).
JList(l) == [t |-> "list", v |-> l]

JObj(d) == [t |-> "dict", v |-> d]

\* `x if isinstance(x, list) else [x]`
AsList(x) == IF x.t = "list" THEN x.v ELSE << x.v >>

\* The result of a call: a returned value, None, or a raised exception.
Ok(v) == [tag |-> "ok", val |-> v]

None == [tag |-> "None"]

Raise(e) == [tag |-> "raise", exc |-> e]

(***************************************************************************)
(* Record normaliser.                                                      *)
(***************************************************************************)
birmingham_institutions ==
    << "University of Birmingham", "Birmingham Business School",
       "College of Social Sciences", "Birmingham Medical School" >>

\* The loop of is_birmingham_affiliated over affil_list from index i on:
\* "True" at the first affiliation whose lower-cased name contains an
\* institution, "raise" (AttributeError: None has no lower) at a null name met
\* before that, "False" at the end of the list.
RECURSIVE AffilScan(_, _)
AffilScan(affil_list, i) ==
    IF i > Len(affil_list) THEN "False"
    ELSE LET name       == Get(affil_list[i], "affilname", JStr(""))
             affil_name == Lower(name.v)
         IN  IF name.t = "null" THEN "raise"
             ELSE IF \E k \in 1..Len(birmingham_institutions) :
                        Contains(Lower(birmingham_institutions[k]), affil_name)
                  THEN "True"
                  ELSE AffilScan(affil_list, i + 1)

is_birmingham_affiliated(paper) ==
    IF "affiliation" \notin DOMAIN paper THEN "False"
    ELSE AffilScan(AsList(paper["affiliation"]), 1)

\* The text before the first "-" of s: str(date_str).split('-')[0].
RECURSIVE SplitHead(_)
SplitHead(s) ==
    IF Len(s) = 0 \/ SubSeq(s, 1, 1) = "-" THEN ""
    ELSE SubSeq(s, 1, 1) \o SplitHead(SubSeq(s, 2, Len(s)))

\* The year of extract_document_data: <<>> is None, <<y>> the integer y.
ExtractYear(date_str) ==
    IF date_str # "" /\ Contains("-", date_str) /\ IsNumeric(SplitHead(date_str))
    THEN << IntOf(SplitHead(date_str)) >>
    ELSE << >>

extract_document_data(paper) ==
    LET doi         == Get(paper, "prism:doi", "")
        scopus_id   == Replace(Get(paper, "dc:identifier", ""), "SCOPUS_ID:", "")
        document_id == IF doi # "" THEN doi ELSE scopus_id
        cited       == Get(paper, "citedby-count", "0")
    IN  IF document_id = "" THEN None
        ELSE IF ~IsNumeric(cited) THEN Raise("ValueError")
        ELSE Ok([ document_id    |-> document_id,
                  title          |-> Get(paper, "dc:title", ""),
                  abstract       |-> Get(paper, "dc:description", ""),
                  year           |-> ExtractYear(Get(paper, "prism:coverDate", "")),
                  citation_count |-> IntOf(cited),
                  doi            |-> doi,
                  scopus_id      |-> scopus_id ])

RECURSIVE AuthorsFrom(_, _)
AuthorsFrom(author_list, i) ==
    IF i > Len(author_list) THEN << >>
    ELSE LET author    == author_list[i]
             author_id == Get(author, "authid", Get(author, "@auid", ""))
             rest      == AuthorsFrom(author_list, i + 1)
         IN  IF author_id = "" THEN rest
             ELSE << [ author_id |-> author_id,
                       full_name |-> Get(author, "authname",
                                         Get(author, "ce:indexed-name", "")),
                       orcid     |-> Get(author, "orcid", ""),
                       sequence  |-> Get(author, "@seq", "") ] >> \o rest

extract_authors_data(paper) ==
    IF "author" \in DOMAIN paper THEN AuthorsFrom(AsList(paper["author"]), 1)
    ELSE << >>

RECURSIVE AffiliationsFrom(_, _)
AffiliationsFrom(affil_list, i) ==
    IF i > Len(affil_list) THEN << >>
    ELSE LET affil    == affil_list[i]
             affil_id == Get(affil, "afid", "")
             rest     == AffiliationsFrom(affil_list, i + 1)
         IN  IF affil_id = "" THEN rest
             ELSE << [ affiliation_id |-> affil_id,
                       name           |-> Get(affil, "affilname", JStr("")),
                       city           |-> Get(affil, "affiliation-city", ""),
                       country        |-> Get(affil, "affiliation-country", "") ] >>
                  \o rest

extract_affiliations_data(paper) ==
    IF "affiliation" \in DOMAIN paper
    THEN AffiliationsFrom(AsList(paper["affiliation"]), 1)
    ELSE << >>

extract_publication_data(paper) ==
    LET pub_name == Get(paper, "prism:publicationName", "")
        issn     == Get(paper, "prism:issn", "")
        pub_id   == IF issn # "" THEN issn
                    ELSE "name_" \o Replace(Lower(pub_name), " ", "_")
    IN  IF pub_name = "" THEN None
        ELSE Ok([ publication_id |-> pub_id,
                  name           |-> pub_name,
                  issn           |-> issn,
                  publisher      |-> Get(paper, "dc:publisher", "") ])

(***************************************************************************)
(* Entity deduplicator: the pre-processing loop of process_papers.         *)
(* A Python dict is kept as the sequence of its values in insertion order; *)
(* key names the field of a value that holds its key.                      *)
(***************************************************************************)
\* d[value[key]] = value
DictSet(d, key, value) ==
    IF \E j \in 1..Len(d) : d[j][key] = value[key]
    THEN [ j \in 1..Len(d) |-> IF d[j][key] = value[key] THEN value ELSE d[j] ]
    ELSE Append(d, value)

\* for value in values: d[value[key]] = value
RECURSIVE DictSetAll(_, _, _, _)
DictSetAll(d, key, values, i) ==
    IF i > Len(values) THEN d
    ELSE DictSetAll(DictSet(d, key, values[i]), key, values, i + 1)

\* The author_of entries of one paper.
AuthorOfRels(authors_data, doc_id) ==
    [ j \in 1..Len(authors_data) |->
        [ author_id |-> authors_data[j].author_id, doc_id |-> doc_id ] ]

\* The affiliated_with entries of one paper: for each author, one per affiliation.
RECURSIVE AffiliatedWithRels(_, _, _)
AffiliatedWithRels(authors_data, affiliations_data, i) ==
    IF i > Len(authors_data) THEN << >>
    ELSE [ j \in 1..Len(affiliations_data) |->
             [ author_id |-> authors_data[i].author_id,
               affil_id  |-> affiliations_data[j].affiliation_id ] ]
         \o AffiliatedWithRels(authors_data, affiliations_data, i + 1)

\* The co_author entries of one paper: author i with every later author.
RECURSIVE CoAuthorRels(_, _, _)
CoAuthorRels(authors_data, doc_id, i) ==
    IF i > Len(authors_data) THEN << >>
    ELSE [ j \in 1..(Len(authors_data) - i) |->
             [ author1_id |-> authors_data[i].author_id,
               author2_id |-> authors_data[i + j].author_id,
               doc_id     |-> doc_id ] ]
         \o CoAuthorRels(authors_data, doc_id, i + 1)

\* The accumulators before the first paper.
EmptyData ==
    [ all_documents    |-> << >>,
      all_authors      |-> << >>,
      all_affiliations |-> << >>,
      all_publications |-> << >>,
      author_of        |-> << >>,
      affiliated_with  |-> << >>,
      published_in     |-> << >>,
      co_author        |-> << >> ]

\* One iteration of the pre-processing loop.  A paper without a document
\* identity is skipped (continue); so is one whose extraction raises (except:
\* continue).  Every extraction precedes the first store into an accumulator,
\* so a skipped paper leaves the accumulators as they were.
StorePaper(data, paper) ==
    LET doc_data          == extract_document_data(paper)
        authors_data      == extract_authors_data(paper)
        affiliations_data == extract_affiliations_data(paper)
        pub_data          == extract_publication_data(paper)
        doc_id            == doc_data.val.document_id
    IN  IF doc_data.tag # "ok" THEN data
        ELSE [ all_documents    |-> Append(data.all_documents, doc_data.val),
               all_authors      |->
                   DictSetAll(data.all_authors, "author_id", authors_data, 1),
               all_affiliations |->
                   DictSetAll(data.all_affiliations, "affiliation_id",
                              affiliations_data, 1),
               all_publications |->
                   IF pub_data.tag = "ok"
                   THEN DictSet(data.all_publications, "publication_id", pub_data.val)
                   ELSE data.all_publications,
               author_of        |->
                   data.author_of \o AuthorOfRels(authors_data, doc_id),
               affiliated_with  |->
                   data.affiliated_with
                   \o AffiliatedWithRels(authors_data, affiliations_data, 1),
               published_in     |->
                   IF pub_data.tag = "ok"
                   THEN Append(data.published_in,
                               [ doc_id |-> doc_id,
                                 pub_id |-> pub_data.val.publication_id ])
                   ELSE data.published_in,
               co_author        |->
                   IF Len(authors_data) > 1
                   THEN data.co_author \o CoAuthorRels(authors_data, doc_id, 1)
                   ELSE data.co_author ]

\* The pre-processing loop over birmingham_papers from index i on.
RECURSIVE PreProcess(_, _, _)
PreProcess(data, birmingham_papers, i) ==
    IF i > Len(birmingham_papers) THEN data
    ELSE PreProcess(StorePaper(data, birmingham_papers[i]), birmingham_papers, i + 1)

\* A faulty BirminghamPapers: no filter, every record goes on to extraction.
BirminghamPapersUnfiltered(raw_papers) == raw_papers

\* A faulty BirminghamPapers: the filter takes every affiliation whose name
\* holds "birmingham".
BirminghamPapersByCity(raw_papers) ==
    SelectSeq(raw_papers, LAMBDA paper :
        /\ "affiliation" \in DOMAIN paper
        /\ \E j \in 1..Len(AsList(paper["affiliation"])) :
              LET name == Get(AsList(paper["affiliation"])[j], "affilname", JStr(""))
              IN  name.t = "str" /\ Contains("birmingham", Lower(name.v)))

\* birmingham_papers: the list comprehension of line 282, when no call of
\* is_birmingham_affiliated raises.
BirminghamPapers(raw_papers) ==
    SelectSeq(raw_papers, LAMBDA paper : is_birmingham_affiliated(paper) = "True")

\* Whether the list comprehension of line 282 raises.
FilterRaises(raw_papers) ==
    \E j \in 1..Len(raw_papers) : is_birmingham_affiliated(raw_papers[j]) = "raise"

\* unique_affiliations: one entry per (author_id, affil_id), in the order of
\* first occurrence.
RECURSIVE UniqueAffiliations(_, _)
UniqueAffiliations(affiliated_with, i) ==
    IF i = 0 THEN << >>
    ELSE LET before == UniqueAffiliations(affiliated_with, i - 1)
         IN  IF \E j \in 1..Len(before) : before[j] = affiliated_with[i]
             THEN before
             ELSE Append(before, affiliated_with[i])

\* tuple(sorted([a, b]))
SortedPair(a, b) == IF StrLess(b, a) THEN << b, a >> ELSE << a, b >>

\* co_author_count[key] += 1 on the list of (key, count) items.
CountKey(counts, k) ==
    IF \E j \in 1..Len(counts) : counts[j].key = k
    THEN [ j \in 1..Len(counts) |->
             IF counts[j].key = k
             THEN [ key |-> k, count |-> counts[j].count + 1 ]
             ELSE counts[j] ]
    ELSE Append(counts, [ key |-> k, count |-> 1 ])

\* co_author_count after the first i entries of co_author.
RECURSIVE CoAuthorCount(_, _)
CoAuthorCount(co_author, i) ==
    IF i = 0 THEN << >>
    ELSE CountKey(CoAuthorCount(co_author, i - 1),
                  SortedPair(co_author[i].author1_id, co_author[i].author2_id))

\* co_author_final
CoAuthorFinal(co_author) ==
    LET counts == CoAuthorCount(co_author, Len(co_author))
    IN  [ j \in 1..Len(counts) |->
            [ author1_id |-> counts[j].key[1],
              author2_id |-> counts[j].key[2],
              count      |-> counts[j].count ] ]

(***************************************************************************)
(* Graph store.  The nodes of a label are a sequence of property records   *)
(* in creation order; AUTHOR_OF, AFFILIATED_WITH and PUBLISHED_IN are sets *)
(* of (start key, end key) pairs; CO_AUTHOR is a set of edge records.  The *)
(* operators below are the Cypher statements process_papers issues, each   *)
(* applied to one batch (UNWIND handles the rows in list order).           *)
(***************************************************************************)
EmptyStore ==
    [ Document        |-> << >>,
      Author          |-> << >>,
      Affiliation     |-> << >>,
      Publication     |-> << >>,
      AUTHOR_OF       |-> {},
      AFFILIATED_WITH |-> {},
      PUBLISHED_IN    |-> {},
      CO_AUTHOR       |-> {} ]

\* A faulty MergeNode: CREATE in place of MERGE, a node per row.
MergeNodeAlwaysCreates(nodes, key, node) == Append(nodes, node)

\* A faulty MergeNode: ON CREATE SET in place of SET, a matched node keeps the
\* properties it has.
MergeNodeOnCreate(nodes, key, node) ==
    IF \E j \in 1..Len(nodes) : nodes[j][key] = node[key] THEN nodes
    ELSE Append(nodes, node)

\* MERGE (n:Label {key: node[key]}) SET n.<property> = ... for each property:
\* every node with that key takes the properties, and one is created when
\* there is none.
MergeNode(nodes, key, node) ==
    IF \E j \in 1..Len(nodes) : nodes[j][key] = node[key]
    THEN [ j \in 1..Len(nodes) |-> IF nodes[j][key] = node[key] THEN node ELSE nodes[j] ]
    ELSE Append(nodes, node)

\* Whether MATCH (n:Label {key: k}) finds a node.
HasNode(nodes, key, k) == \E j \in 1..Len(nodes) : nodes[j][key] = k

DocumentNode(doc) ==
    [ document_id    |-> doc.document_id,
      title          |-> doc.title,
      abstract       |-> doc.abstract,
      year           |-> doc.year,
      citation_count |-> doc.citation_count,
      doi            |-> doc.doi,
      scopus_id      |-> doc.scopus_id ]

AuthorNode(author) ==
    [ author_id |-> author.author_id,
      full_name |-> author.full_name,
      orcid     |-> author.orcid ]

AffiliationNode(affil) ==
    [ affiliation_id |-> affil.affiliation_id,
      name           |-> affil.name,
      city           |-> affil.city,
      country        |-> affil.country ]

PublicationNode(pub) ==
    [ publication_id |-> pub.publication_id,
      name           |-> pub.name,
      issn           |-> pub.issn,
      publisher      |-> pub.publisher ]

\* One row of each statement.
MergeDocument(st, doc) ==
    [ st EXCEPT !.Document = MergeNode(@, "document_id", DocumentNode(doc)) ]

MergeAuthor(st, author) ==
    [ st EXCEPT !.Author = MergeNode(@, "author_id", AuthorNode(author)) ]

MergeAffiliation(st, affil) ==
    [ st EXCEPT !.Affiliation = MergeNode(@, "affiliation_id", AffiliationNode(affil)) ]

MergePublication(st, pub) ==
    [ st EXCEPT !.Publication = MergeNode(@, "publication_id", PublicationNode(pub)) ]

MergeAuthorOf(st, rel) ==
    IF /\ HasNode(st.Author, "author_id", rel.author_id)
       /\ HasNode(st.Document, "document_id", rel.doc_id)
    THEN [ st EXCEPT !.AUTHOR_OF = @ \cup { << rel.author_id, rel.doc_id >> } ]
    ELSE st

MergeAffiliatedWith(st, rel) ==
    IF /\ HasNode(st.Author, "author_id", rel.author_id)
       /\ HasNode(st.Affiliation, "affiliation_id", rel.affil_id)
    THEN [ st EXCEPT !.AFFILIATED_WITH = @ \cup { << rel.author_id, rel.affil_id >> } ]
    ELSE st

MergePublishedIn(st, rel) ==
    IF /\ HasNode(st.Document, "document_id", rel.doc_id)
       /\ HasNode(st.Publication, "publication_id", rel.pub_id)
    THEN [ st EXCEPT !.PUBLISHED_IN = @ \cup { << rel.doc_id, rel.pub_id >> } ]
    ELSE st

\* A faulty MergeCoAuthor: the count of a matched edge grows by rel.count
\* (ON MATCH SET co.collaboration_count = co.collaboration_count + rel.count).
MergeCoAuthorAdds(st, rel) ==
    LET ends    == { rel.author1_id, rel.author2_id }
        matched == { e \in st.CO_AUTHOR : { e.a1, e.a2 } = ends }
    IN  IF ~ ( /\ HasNode(st.Author, "author_id", rel.author1_id)
               /\ HasNode(st.Author, "author_id", rel.author2_id) )
        THEN st
        ELSE IF matched = {}
        THEN [ st EXCEPT !.CO_AUTHOR =
                 @ \cup { [ a1 |-> rel.author1_id, a2 |-> rel.author2_id,
                            collaboration_count |-> rel.count ] } ]
        ELSE [ st EXCEPT !.CO_AUTHOR =
                 (@ \ matched)
                 \cup { [ e EXCEPT !.collaboration_count = @ + rel.count ] : e \in matched } ]

\* MERGE (a1)-[co:CO_AUTHOR]-(a2) SET co.collaboration_count = rel.count:
\* the undirected pattern matches an edge in either direction; the count of
\* every matched edge is set, and an edge a1 -> a2 is created when there is
\* none.
MergeCoAuthor(st, rel) ==
    LET ends    == { rel.author1_id, rel.author2_id }
        matched == { e \in st.CO_AUTHOR : { e.a1, e.a2 } = ends }
    IN  IF ~ ( /\ HasNode(st.Author, "author_id", rel.author1_id)
               /\ HasNode(st.Author, "author_id", rel.author2_id) )
        THEN st
        ELSE IF matched = {}
        THEN [ st EXCEPT !.CO_AUTHOR =
                 @ \cup { [ a1 |-> rel.author1_id, a2 |-> rel.author2_id,
                            collaboration_count |-> rel.count ] } ]
        ELSE [ st EXCEPT !.CO_AUTHOR =
                 (@ \ matched)
                 \cup { [ e EXCEPT !.collaboration_count = rel.count ] : e \in matched } ]

\* A faulty order: the AUTHOR_OF statement ahead of the Author statement.
KindsAuthorOfFirst ==
    << "Document", "AUTHOR_OF", "Author", "Affiliation", "Publication",
       "AFFILIATED_WITH", "PUBLISHED_IN", "CO_AUTHOR" >>

\* The kinds of write, in the order of the statements of process_papers.
Kinds ==
    << "Document", "Author", "Affiliation", "Publication",
       "AUTHOR_OF", "AFFILIATED_WITH", "PUBLISHED_IN", "CO_AUTHOR" >>

\* The row a statement of the given kind handles.
MergeRow(kind, st, row) ==
    CASE kind = "Document"        -> MergeDocument(st, row)
      [] kind = "Author"          -> MergeAuthor(st, row)
      [] kind = "Affiliation"     -> MergeAffiliation(st, row)
      [] kind = "Publication"     -> MergePublication(st, row)
      [] kind = "AUTHOR_OF"       -> MergeAuthorOf(st, row)
      [] kind = "AFFILIATED_WITH" -> MergeAffiliatedWith(st, row)
      [] kind = "PUBLISHED_IN"    -> MergePublishedIn(st, row)
      [] kind = "CO_AUTHOR"       -> MergeCoAuthor(st, row)

\* The committed effect of one statement on a batch: UNWIND from row i on.
RECURSIVE ApplyBatch(_, _, _, _)
ApplyBatch(kind, st, batch, i) ==
    IF i > Len(batch) THEN st
    ELSE ApplyBatch(kind, MergeRow(kind, st, batch[i]), batch, i + 1)

\* The lists process_papers slices into batches, by kind.
WriteLists(data) ==
    [ Document        |-> data.all_documents,
      Author          |-> data.all_authors,
      Affiliation     |-> data.all_affiliations,
      Publication     |-> data.all_publications,
      AUTHOR_OF       |-> data.author_of,
      AFFILIATED_WITH |-> UniqueAffiliations(data.affiliated_with,
                                             Len(data.affiliated_with)),
      PUBLISHED_IN    |-> data.published_in,
      CO_AUTHOR       |-> CoAuthorFinal(data.co_author) ]

\* The slice length of a kind.
SliceSize(kind) == IF kind = "CO_AUTHOR" THEN small_batch ELSE batch_size

\* A faulty Slice: list[i:], no upper end.
SliceUnbounded(list, i, n) == SubSeq(list, i + 1, Len(list))

\* list[i:i + n] for a 0-based offset i.
Slice(list, i, n) ==
    SubSeq(list, i + 1, IF i + n < Len(list) THEN i + n ELSE Len(list))

(***************************************************************************)
(* Inputs: the raw papers a corpus is drawn from, in the shape of Scopus   *)
(* search entries.                                                         *)
(***************************************************************************)
AffilBirmingham ==
    ("afid" :> "60019702") @@ ("affilname" :> JStr("University of Birmingham"))
    @@ ("affiliation-city" :> "Birmingham")

AffilBusiness ==
    ("afid" :> "60171766") @@ ("affilname" :> JStr("BIRMINGHAM BUSINESS SCHOOL"))

AffilMedical ==
    ("afid" :> "60002634") @@ ("affilname" :> JStr("Birmingham Medical School"))

AffilAston ==
    ("afid" :> "60018211") @@ ("affilname" :> JStr("Aston University, Birmingham"))

AffilNull == ("afid" :> "60000001") @@ ("affilname" :> JNull)

AuthorSmith == ("authid" :> "12") @@ ("authname" :> "Smith J.") @@ ("@seq" :> "1")

AuthorJones == ("authid" :> "3") @@ ("authname" :> "Jones K.")

AuthorPatel == ("@auid" :> "7") @@ ("ce:indexed-name" :> "Patel R.")

AuthorLee == ("authid" :> "9") @@ ("authname" :> "Lee M.")

AuthorNoId == ("authname" :> "Anon")

\* A paper with a DOI and a Scopus identifier, two authors and a venue.
PaperDoi ==
    ("affiliation" :> JList(<< AffilAston, AffilBirmingham >>))
    @@ ("prism:doi" :> "10.1/a") @@ ("dc:identifier" :> "SCOPUS_ID:85")
    @@ ("dc:title" :> "Graph methods") @@ ("prism:coverDate" :> "2021-03-01")
    @@ ("citedby-count" :> "14")
    @@ ("author" :> JList(<< AuthorJones, AuthorSmith >>))
    @@ ("prism:publicationName" :> "J Med Sci") @@ ("prism:issn" :> "1234")

\* A paper without a DOI; a single affiliation object; three authors, one of
\* them keyed by @auid, and an author entry without an identifier; a venue
\* without an ISSN.
PaperScopus ==
    ("affiliation" :> JObj(AffilBusiness))
    @@ ("dc:identifier" :> "SCOPUS_ID:86") @@ ("dc:title" :> "Trends")
    @@ ("prism:coverDate" :> "n.d.")
    @@ ("author" :> JList(<< AuthorSmith, AuthorNoId, AuthorJones, AuthorPatel >>))
    @@ ("prism:publicationName" :> "Open Res")

\* A paper with neither a DOI nor a Scopus identifier; its author, affiliation
\* and venue occur in no other paper.
PaperNoIdentity ==
    ("affiliation" :> JList(<< AffilMedical >>))
    @@ ("dc:title" :> "Untraceable")
    @@ ("author" :> JList(<< AuthorLee, AuthorJones >>))
    @@ ("prism:publicationName" :> "Lost Notes")

\* A paper of another institution.
PaperOther ==
    ("affiliation" :> JList(<< AffilAston >>))
    @@ ("prism:doi" :> "10.1/o") @@ ("dc:title" :> "Elsewhere")
    @@ ("author" :> JObj(AuthorPatel))

\* A paper whose first affiliation has the name null.
PaperNullAffil ==
    ("affiliation" :> JList(<< AffilNull, AffilBirmingham >>))
    @@ ("prism:doi" :> "10.1/n") @@ ("dc:title" :> "Null name")
    @@ ("author" :> JList(<< AuthorSmith, AuthorJones >>))

\* A paper whose citation count is not a number.
PaperBadCount ==
    ("affiliation" :> JList(<< AffilBirmingham >>))
    @@ ("prism:doi" :> "10.1/c") @@ ("dc:title" :> "Bad count")
    @@ ("citedby-count" :> "n/a")
    @@ ("author" :> JList(<< AuthorSmith, AuthorJones >>))

\* The document, the first author, the second affiliation and the venue of
\* PaperDoi, each with other attributes.
AffilBirminghamUK ==
    ("afid" :> "60019702") @@ ("affilname" :> JStr("University of Birmingham"))
    @@ ("affiliation-city" :> "Edgbaston") @@ ("affiliation-country" :> "United Kingdom")

AuthorSmithOrcid ==
    ("authid" :> "12") @@ ("authname" :> "Smith John") @@ ("orcid" :> "0000-0001")

PaperRevised ==
    ("affiliation" :> JList(<< AffilBirminghamUK >>))
    @@ ("prism:doi" :> "10.1/a") @@ ("dc:identifier" :> "SCOPUS_ID:85")
    @@ ("dc:title" :> "Graph methods, revised") @@ ("prism:coverDate" :> "2022-01-01")
    @@ ("citedby-count" :> "20")
    @@ ("author" :> JList(<< AuthorSmithOrcid >>))
    @@ ("prism:publicationName" :> "Journal of Medical Science") @@ ("prism:issn" :> "1234")
    @@ ("dc:publisher" :> "BMJ")

\* A paper whose author list holds one author twice.
PaperTwice ==
    ("affiliation" :> JList(<< AffilBirmingham >>))
    @@ ("prism:doi" :> "10.1/t") @@ ("dc:title" :> "Listed twice")
    @@ ("author" :> JList(<< AuthorSmith, AuthorJones, AuthorSmith >>))

Papers ==
    { PaperDoi, PaperScopus, PaperNoIdentity, PaperOther, PaperNullAffil,
      PaperBadCount }

\* Corpora with PaperRevised and PaperTwice.
Revisions ==
    { << PaperRevised >>, << PaperDoi, PaperRevised >>, << PaperRevised, PaperDoi >>,
      << PaperScopus, PaperRevised >>, << PaperTwice >>, << PaperTwice, PaperDoi >>,
      << PaperScopus, PaperTwice >> }

\* The corpora of the first call: every list of at most MaxPapers papers, and
\* the revisions.
Corpora == UNION { [ 1..n -> Papers ] : n \in 0..MaxPapers } \cup Revisions

\* The corpora of a later call on the same store: one more paper.
FollowUps == { << paper >> : paper \in Papers \cup { PaperRevised, PaperTwice } }

(***************************************************************************)
(* Collaboration and trend analytics (src/RAG/collaboration.py).  A record *)
(* of the search collaborator is a dict with the keys authors (a list of   *)
(* display names), main_affiliation (JStr(s) or JNull), year (<<y>>, or    *)
(* <<>> for None), citations and title; a missing key is outside DOMAIN.   *)
(* A number that Python holds as a float is kept as the fraction           *)
(* [num |-> n, den |-> d] with d > 0.                                      *)
(***************************************************************************)
birmingham_affiliations ==
    << "university of birmingham", "birmingham business school",
       "college of social sciences", "birmingham medical school",
       "university of birmingham dubai" >>

\* Whether paper.get('main_affiliation', '') is None, on which .lower() raises
\* AttributeError.
AffiliationIsNone(paper) == Get(paper, "main_affiliation", JStr("")).t = "null"

\* is_birmingham: any(bham in affiliation for bham in birmingham_affiliations).
is_birmingham(paper) ==
    LET affiliation == Lower(Get(paper, "main_affiliation", JStr("")).v)
    IN  \E k \in 1..Len(birmingham_affiliations) :
            Contains(birmingham_affiliations[k], affiliation)

\* The records that pass `if is_birmingham and len(authors) > 1` (line 46).
NetworkPapers(papers) ==
    SelectSeq(papers, LAMBDA paper :
        is_birmingham(paper) /\ Len(Get(paper, "authors", << >>)) > 1)

\* The sum of f[1], ..., f[n].
RECURSIVE Sum(_, _)
Sum(f, n) == IF n = 0 THEN 0 ELSE f[n] + Sum(f, n - 1)

\* The names of a sequence of records for which `if author` holds.
AuthorNames(papers) ==
    UNION { { papers[n]["authors"][j] : j \in 1..Len(papers[n]["authors"]) } :
            n \in 1..Len(papers) } \ { "" }

\* author_paper_count: one more for every occurrence of the name in the
\* authors of a record that passes (lines 48-50).
author_paper_count(papers) ==
    LET passing == NetworkPapers(papers)
    IN  [ a \in AuthorNames(passing) |->
            Sum([ n \in 1..Len(passing) |->
                    Cardinality({ j \in 1..Len(passing[n]["authors"]) :
                                    passing[n]["authors"][j] = a }) ],
                Len(passing)) ]

\* The positions i < j of a list of authors that hold a and b, either way
\* round: what lines 61-65 add to collaboration_graph[a][b].
PairCount(authors, a, b) ==
    Cardinality({ ij \in (1..Len(authors)) \X (1..Len(authors)) :
                    /\ ij[1] < ij[2]
                    /\ \/ authors[ij[1]] = a /\ authors[ij[2]] = b
                       \/ authors[ij[1]] = b /\ authors[ij[2]] = a })
    * (IF a = b THEN 2 ELSE 1)

\* collaboration_graph[a][b] after the loop over the records.
collaboration_graph(papers, a, b) ==
    LET passing == NetworkPapers(papers)
    IN  Sum([ n \in 1..Len(passing) |-> PairCount(passing[n]["authors"], a, b) ],
            Len(passing))

\* A faulty active_authors: no threshold, every counted author is active.
AllAuthorsActive(papers, min_papers) == DOMAIN author_paper_count(papers)

\* active_authors (lines 68-69).
active_authors(papers, min_papers) ==
    { a \in DOMAIN author_paper_count(papers) :
        author_paper_count(papers)[a] >= min_papers }

\* The graph G of lines 72-79: nodes maps a node to its attribute papers,
\* edges maps an undirected edge, the set of its ends, to its weight.
Graph(papers, min_papers) ==
    LET active == active_authors(papers, min_papers)
        ends   == { { a, b } : a \in active, b \in active }
    IN  [ nodes |-> [ a \in active |-> author_paper_count(papers)[a] ],
          edges |-> [ e \in { x \in ends :
                               \E a \in x : \E b \in x :
                                 x = { a, b } /\ collaboration_graph(papers, a, b) > 0 }
                      |-> LET a == CHOOSE a \in e : TRUE
                              b == CHOOSE b \in e : e = { a, b }
                          IN  collaboration_graph(papers, a, b) ] ]

\* The nodes one edge away from a node of S, with S.
Step(G, S) ==
    S \cup { b \in DOMAIN G.nodes : \E a \in S : { a, b } \in DOMAIN G.edges }

\* The nodes reachable from S.
RECURSIVE Reachable(_, _)
Reachable(G, S) == IF Step(G, S) = S THEN S ELSE Reachable(G, Step(G, S))

\* A faulty is_connected: every graph passes.
AlwaysConnected(G) == TRUE

\* nx.is_connected(G), for a graph with a node.
is_connected(G) ==
    Reachable(G, { CHOOSE a \in DOMAIN G.nodes : TRUE }) = DOMAIN G.nodes

\* nx.degree_centrality(G): degree over n - 1, and 1 for every node when
\* n <= 1; a self-loop counts twice in the degree.
degree_centrality(G) ==
    LET n == Cardinality(DOMAIN G.nodes)
    IN  [ a \in DOMAIN G.nodes |->
            IF n <= 1 THEN [ num |-> 1, den |-> 1 ]
            ELSE [ num |-> Cardinality({ b \in DOMAIN G.nodes \ { a } :
                                            { a, b } \in DOMAIN G.edges })
                           + (IF { a } \in DOMAIN G.edges THEN 2 ELSE 0),
                   den |-> n - 1 ] ]

\* A mapping of networkx from every node of G to a value this model does not
\* compute (betweenness, closeness, eigenvector).
Scores(G) == [ a \in DOMAIN G.nodes |-> "score" ]

\* The empty dict.
EmptyDict == [ a \in {} |-> "score" ]

\* centrality_metrics (lines 82-97): the empty dict for a graph without
\* nodes.
centrality_metrics(G) ==
    IF Cardinality(DOMAIN G.nodes) > 0
    THEN [ degree      |-> degree_centrality(G),
           betweenness |-> Scores(G),
           closeness   |-> Scores(G),
           eigenvector |-> IF is_connected(G) \/ Cardinality(DOMAIN G.nodes) = 1
                           THEN Scores(G) ELSE EmptyDict ]
    ELSE EmptyDict

\* analyze_collaboration_network(research_area, min_papers) on the records
\* the search returned: its graph, centrality_metrics and author_paper_count.
analyze_collaboration_network(papers, min_papers) ==
    IF \E n \in 1..Len(papers) : AffiliationIsNone(papers[n])
    THEN Raise("AttributeError")
    ELSE Ok([ graph              |-> Graph(papers, min_papers),
              centrality_metrics |-> centrality_metrics(Graph(papers, min_papers)),
              author_paper_count |-> author_paper_count(papers) ])

\* datetime.now().year at the time of the call.
current_year == 2026

\* years_back as _analyze_trends passes it (LLMpoweredRAG.py line 142).
years_back == 8

\* start_year (line 192).
start_year == current_year - years_back

\* The records that pass `if is_birmingham and year and year >= start_year`
\* (line 221).
TrendPapers(papers) ==
    SelectSeq(papers, LAMBDA paper :
        /\ is_birmingham(paper)
        /\ Get(paper, "year", << >>) # << >>
        /\ paper["year"][1] # 0
        /\ paper["year"][1] >= start_year)

research_keywords ==
    << "deep learning", "machine learning", "neural network", "artificial intelligence",
       "computer vision", "natural language processing", "reinforcement learning",
       "transformer", "attention", "convolutional", "lstm", "gru",
       "classification", "segmentation", "detection", "prediction",
       "medical imaging", "healthcare", "clinical", "diagnosis",
       "covid", "cancer", "tumor", "disease",
       "interpretable", "explainable", "federated", "privacy",
       "robust", "adversarial", "uncertainty", "ensemble" >>

\* extract_trend_keywords(title): the keywords found in the lower-cased
\* title, in the order of research_keywords, each once.
extract_trend_keywords(title) ==
    LET title_lower == Lower(title)
    IN  SelectSeq(research_keywords, LAMBDA keyword : Contains(keyword, title_lower))

\* The elements of a sequence.
Range(seq) == { seq[j] : j \in 1..Len(seq) }

\* sorted(S) for a set of integers.
RECURSIVE Sorted(_)
Sorted(S) ==
    IF S = {} THEN << >>
    ELSE LET least == CHOOSE x \in S : \A y \in S : x <= y
         IN  << least >> \o Sorted(S \ { least })

\* yearly_data after the loop of lines 214-237: papers and citations of each
\* year that a passing record has.
yearly_data(papers) ==
    LET passing == TrendPapers(papers)
    IN  [ y \in { passing[n]["year"][1] : n \in 1..Len(passing) } |->
            [ papers    |-> Cardinality({ n \in 1..Len(passing) : passing[n]["year"][1] = y }),
              citations |-> Sum([ n \in 1..Len(passing) |->
                                    IF passing[n]["year"][1] = y
                                    THEN Get(passing[n], "citations", 0) ELSE 0 ],
                                Len(passing)) ] ]

\* years (line 241).
Years(papers) == Sorted(DOMAIN yearly_data(papers))

\* np.polyfit(range(len(ys)), ys, 1)[0]: the slope of the least-squares line
\* through (0, ys[1]), ..., (n - 1, ys[n]), n >= 2.
polyfit_slope(ys) ==
    LET n   == Len(ys)
        sx  == Sum([ k \in 1..n |-> k - 1 ], n)
        sy  == Sum(ys, n)
        sxy == Sum([ k \in 1..n |-> (k - 1) * ys[k] ], n)
        sxx == Sum([ k \in 1..n |-> (k - 1) * (k - 1) ], n)
    IN  [ num |-> n * sxy - sx * sy, den |-> n * sxx - sx * sx ]

\* The number 0 of lines 252-253.
Zero == [ num |-> 0, den |-> 1 ]

\* trend_analysis (lines 240-263): the empty dict with fewer than two
\* years.
trend_analysis(papers) ==
    LET years == Years(papers)
        papers_by_year    == [ k \in 1..Len(years) |-> yearly_data(papers)[years[k]].papers ]
        citations_by_year == [ k \in 1..Len(years) |-> yearly_data(papers)[years[k]].citations ]
    IN  IF Len(years) > 1
        THEN [ years             |-> years,
               papers_by_year    |-> papers_by_year,
               citations_by_year |-> citations_by_year,
               paper_trend       |-> IF Len(papers_by_year) > 2
                                     THEN polyfit_slope(papers_by_year) ELSE Zero,
               citation_trend    |-> IF Len(papers_by_year) > 2
                                     THEN polyfit_slope(citations_by_year) ELSE Zero,
               total_papers      |-> Sum(papers_by_year, Len(years)),
               total_citations   |-> Sum(citations_by_year, Len(years)) ]
        ELSE EmptyDict

\* The keys of keyword_trends in insertion order: the keywords of the passing
\* records from record n on that are not in seen.
RECURSIVE KeywordOrder(_, _, _)
KeywordOrder(passing, n, seen) ==
    IF n > Len(passing) THEN seen
    ELSE KeywordOrder(passing, n + 1,
             seen \o SelectSeq(extract_trend_keywords(Lower(Get(passing[n], "title", ""))),
                               LAMBDA keyword : keyword \notin Range(seen)))

\* sum(year_counts[y] for y in ys): the passing records of the years ys whose
\* title holds the keyword.
KeywordCount(passing, keyword, ys) ==
    Cardinality({ n \in 1..Len(passing) :
                    /\ passing[n]["year"][1] \in ys
                    /\ keyword \in Range(extract_trend_keywords(
                                          Lower(Get(passing[n], "title", "")))) })

\* x < y for two fractions.
Less(x, y) == x.num * y.den < y.num * x.den

\* list.sort(key=growth_rate, reverse=True) is stable: the entry goes behind
\* every entry whose growth_rate is not less than its own.
RECURSIVE SortedByGrowth(_, _)
SortedByGrowth(entries, n) ==
    IF n = 0 THEN << >>
    ELSE LET before == SortedByGrowth(entries, n - 1)
             e      == entries[n]
             ahead  == Cardinality({ j \in 1..Len(before) :
                                       ~Less(before[j].growth_rate, e.growth_rate) })
         IN  SubSeq(before, 1, ahead) \o << e >> \o SubSeq(before, ahead + 1, Len(before))

\* The length of the slice emerging_keywords[:10] (line 285).
MaxEmerging == 10

\* A faulty Top: no slice, the whole list.
TopAll(entries) == entries

\* emerging_keywords[:10]
Top(entries) == SubSeq(entries, 1, Min(MaxEmerging, Len(entries)))

\* The window of the recent years (line 268).
RecentWindow == 3

\* emerging_keywords before the sort (lines 266-277), in the order of
\* keyword_trends.
EmergingCandidates(papers) ==
    LET passing       == TrendPapers(papers)
        years         == Years(papers)
        recent_years  == Range(SubSeq(years, Len(years) - RecentWindow + 1, Len(years)))
        earlier_years == Range(SubSeq(years, 1, Len(years) - RecentWindow))
        keywords      == KeywordOrder(passing, 1, << >>)
        recent(k)     == KeywordCount(passing, keywords[k], recent_years)
        earlier(k)    == IF earlier_years # {}
                         THEN KeywordCount(passing, keywords[k], earlier_years) ELSE 1
        entries       == [ k \in 1..Len(keywords) |->
                             [ keyword      |-> keywords[k],
                               recent_count |-> recent(k),
                               earlier      |-> earlier(k),
                               growth_rate  |-> [ num |-> recent(k) - earlier(k),
                                                  den |-> Max(earlier(k), 1) ] ] ]
    IN  IF Len(years) >= RecentWindow
        THEN SelectSeq(entries, LAMBDA e :
                 e.recent_count >= 2 /\ e.recent_count > e.earlier)
        ELSE << >>

\* The tuple (keyword, recent_count, growth_rate) of line 277.
EmergingTuple(e) ==
    [ keyword |-> e.keyword, recent_count |-> e.recent_count, growth_rate |-> e.growth_rate ]

\* analyze_research_trends(research_area, years_back) on the records the
\* search returned: its yearly_data, trend_analysis and emerging_keywords.
analyze_research_trends(papers) ==
    IF \E n \in 1..Len(papers) : AffiliationIsNone(papers[n])
    THEN Raise("AttributeError")
    ELSE LET candidates == EmergingCandidates(papers)
             sorted     == SortedByGrowth(candidates, Len(candidates))
         IN  Ok([ yearly_data       |-> yearly_data(papers),
                  trend_analysis    |-> trend_analysis(papers),
                  emerging_keywords |-> [ k \in 1..Len(Top(sorted)) |->
                                            EmergingTuple(Top(sorted)[k]) ] ])

\* A faulty Growing: every slope that is not negative counts as growth.
GrowingNonNegative(slope) == slope.num >= 0

\* `paper_trend > 0.1` (LLMpoweredRAG.py line 162).
Growing(slope) == 10 * slope.num > slope.den

\* state["trends"] as _analyze_trends leaves it (LLMpoweredRAG.py lines
\* 138-169): the summary it dumps, or the error text when the analysis raised.
AnalyzeTrendsSummary(trends) ==
    IF trends.tag = "raise" THEN [ tag |-> "error", val |-> "Error: " \o trends.exc ]
    ELSE LET trend_analysis_   == trends.val.trend_analysis
             yearly            == trends.val.yearly_data
             descending        == Sorted(DOMAIN yearly)
             recent_years      == [ k \in 1..Min(4, Len(descending)) |->
                                      descending[Len(descending) + 1 - k] ]
             emerging_keywords == trends.val.emerging_keywords
         IN  Ok([ total_papers    |-> Get(trend_analysis_, "total_papers", 0),
                  total_citations |-> Get(trend_analysis_, "total_citations", 0),
                  trend           |-> IF Growing(Get(trend_analysis_, "paper_trend", Zero))
                                      THEN "growing" ELSE "stable",
                  recent_years    |-> [ k \in 1..Len(recent_years) |->
                                          [ year      |-> recent_years[k],
                                            papers    |-> yearly[recent_years[k]].papers,
                                            citations |-> yearly[recent_years[k]].citations ] ],
                  emerging_topics |-> [ k \in 1..Min(5, Len(emerging_keywords)) |->
                                          emerging_keywords[k].keyword ] ])

(***************************************************************************)
(* Records of the search collaborator.                                     *)
(***************************************************************************)
\* Longest result set built from BaseRecords.
MaxResults == 2

Record(authors, main_affiliation, year, citations, title) ==
    ("authors" :> authors) @@ ("main_affiliation" :> JStr(main_affiliation))
    @@ ("year" :> << year >>) @@ ("citations" :> citations) @@ ("title" :> title)

RecordAnnBob ==
    Record(<< "Ann", "Bob" >>, "University of Birmingham", current_year - 1, 4,
           "Deep Learning for Cancer")

RecordBobCy ==
    Record(<< "Bob", "Cy" >>, "Birmingham Business School", current_year - 2, 1,
           "Cancer detection")

RecordDeeEve ==
    Record(<< "Dee", "Eve" >>, "Birmingham Medical School, UK", current_year - 3, 0,
           "Deep learning at scale")

\* A record of another institution.
RecordAston ==
    Record(<< "Ann", "Cy" >>, "Aston University", current_year - 1, 9, "Cancer")

\* A record without a year whose second author has an empty name.
RecordNoYear ==
    ("authors" :> << "Cy", "" >>) @@ ("main_affiliation" :> JStr("University of Birmingham"))
    @@ ("citations" :> 2) @@ ("title" :> "Tumor")

\* A record whose main_affiliation is null.
RecordNullAffil ==
    ("authors" :> << "Ann", "Bob" >>) @@ ("main_affiliation" :> JNull)
    @@ ("year" :> << current_year - 1 >>) @@ ("citations" :> 3) @@ ("title" :> "Cancer")

\* A record that has a title alone.
RecordBare == ("title" :> "Privacy")

BaseRecords ==
    { RecordAnnBob, RecordBobCy, RecordDeeEve, RecordAston, RecordNoYear,
      RecordNullAffil, RecordBare }

\* n copies of a record.
Repeat(record, n) == [ k \in 1..n |-> record ]

\* counts[k] records of year first + k - 1, for every k from n on.
RECURSIVE Series(_, _, _)
Series(counts, first, n) ==
    IF n > Len(counts) THEN << >>
    ELSE Repeat(Record(<< "Ann", "Bob" >>, "University of Birmingham", first + n - 1, 1,
                       "Robust ensemble"), counts[n])
         \o Series(counts, first, n + 1)

\* Five years with 2, 2, 3, 5 and 8 records.
SeriesGrowing == Series(<< 2, 2, 3, 5, 8 >>, current_year - 5, 1)

\* Five years with 3 records each.
SeriesFlat == Series(<< 3, 3, 3, 3, 3 >>, current_year - 5, 1)

\* Three recent years and two earlier ones: "cancer" has 3 recent hits and 1
\* earlier, "covid" 2 recent and 5 earlier.
EmergingExample ==
    << Record(<< "Ann", "Bob" >>, "University of Birmingham", current_year - 1, 0, "Cancer and Covid"),
       Record(<< "Ann", "Bob" >>, "University of Birmingham", current_year - 2, 0, "Covid in cancer care"),
       Record(<< "Ann", "Bob" >>, "University of Birmingham", current_year - 3, 0, "Cancer") >>
    \o Repeat(Record(<< "Ann", "Bob" >>, "University of Birmingham", current_year - 4, 0,
                     "Covid"), 3)
    \o << Record(<< "Ann", "Bob" >>, "University of Birmingham", current_year - 5, 0, "Covid cancer"),
          Record(<< "Ann", "Bob" >>, "University of Birmingham", current_year - 5, 0, "COVID") >>

\* Three years, twelve keywords with two hits or more, two of them with three.
ManyKeywords ==
    << Record(<< "Ann", "Bob" >>, "University of Birmingham", current_year - 1, 1,
              "Transformer attention LSTM GRU for covid cancer tumor disease: robust federated privacy ensemble"),
       Record(<< "Ann", "Bob" >>, "University of Birmingham", current_year - 2, 1,
              "Transformer attention LSTM GRU for covid cancer tumor disease: robust federated privacy ensemble"),
       Record(<< "Bob", "Cy" >>, "University of Birmingham", current_year - 3, 1,
              "Ensemble privacy") >>

\* Ann and Bob share two records, Bob and Cy one.
TwoShared == << RecordAnnBob, RecordAnnBob, RecordBobCy >>

\* Three years with a record each.
ThreeYears == << RecordAnnBob, RecordBobCy, RecordDeeEve >>

\* Four years: "federated" has 2 hits in the three recent years and none in
\* the earlier one.
NewTopic ==
    << Record(<< "Ann", "Bob" >>, "University of Birmingham", current_year - 1, 0, "Federated learning"),
       Record(<< "Ann", "Bob" >>, "University of Birmingham", current_year - 2, 0, "Federated models"),
       Record(<< "Ann", "Bob" >>, "University of Birmingham", current_year - 3, 0, "A survey"),
       Record(<< "Ann", "Bob" >>, "University of Birmingham", current_year - 4, 0, "A survey") >>

\* The result sets of semantic_search_with_authors.
ResultSets ==
    UNION { [ 1..n -> BaseRecords ] : n \in 0..MaxResults }
    \cup { TwoShared, ThreeYears, SeriesGrowing, SeriesFlat, EmergingExample,
           ManyKeywords, NewTopic }

\* The values of min_papers: 1, and 2, the default.
MinPapers == { 1, 2 }

(***************************************************************************)
(* State.                                                                  *)
(***************************************************************************)
VARIABLES
    store,        \* the graph store
    stats,        \* self.stats
    pc,           \* "idle": before the first call of process_papers;
                  \* "writing": inside its write loops; "done": it returned;
                  \* "failed": it raised
    raw_papers,   \* the argument of the current call
    found,        \* len(birmingham_papers) as logged by the call, -1 if not logged
    lists,        \* the lists the call writes, by kind
    kind,         \* index in Kinds of the batch to issue next (9: none left)
    i,            \* the offset i of that batch in its list
    attempt,      \* the loop variable of execute_query for that batch
    outcomes,     \* the outcomes of the attempts of the latest execute_query
    slept,        \* seconds that execute_query call has slept
    call,         \* how it ended: "none", "pending", "returned", "raised"
    issued,       \* the batches the call has issued, each with the number of
                  \* batches committed when it was issued
    committed,    \* the batches the call has committed
    returned,     \* the return value of the call, -1 if it has not returned
    raised,       \* the exception that left the call, "none" if none
    report,       \* what main logs after the call: "none", "success", "error"
    store0,       \* the store when the call began
    rerun,        \* whether the current call is a second call on the same store
    prev_papers,  \* the argument of the first call, during the second
    conn,         \* the connection attempts connect has made
    connected,    \* whether connect has returned (self.driver is usable)
    ops,          \* the store operations main has called in this run
    clear_batch_size,  \* batch_size of clear_database
    deleted_total,     \* deleted_total of clear_database
    search_results,    \* the records semantic_search_with_authors returns
    min_papers,        \* the argument min_papers of analyze_collaboration_network
    network_data,      \* what analyze_collaboration_network returned or raised
    trends_data,       \* what analyze_research_trends returned or raised
    trends_summary,    \* state["trends"] after _analyze_trends
    wf_node,           \* the node of the research workflow that runs next
    research_query,    \* the argument of query()
    state,             \* the ResearchState the workflow passes from node to node
    ran,               \* the nodes that have run, in order
    result             \* what query() returned, None before

\* The variables of the knowledge-graph builder.
kgvars ==
    << store, stats, pc, raw_papers, found, lists, kind, i, attempt, outcomes,
       slept, call, issued, committed, returned, raised, report, store0, rerun,
       prev_papers, conn, connected, ops, clear_batch_size, deleted_total >>

\* The variables of the research workflow.
wvars == << wf_node, research_query, state, ran, result >>

\* The variables of the analytics.
avars ==
    << search_results, min_papers, network_data, trends_data, trends_summary, wvars >>

vars == << kgvars, avars >>

\* The variables of connect and clear_database.
mainvars == << conn, connected, ops, clear_batch_size, deleted_total >>

\* range(3) of execute_query.
MaxAttempts == 3

\* time.sleep(5) of execute_query.
RetryDelay == 5

\* range(3) of connect.
MaxConnect == 3

\* main has read its inputs and begins BirminghamKG(database="neo4j"):
\* __init__ is about to call connect.
KGInit ==
    /\ store = EmptyStore
    /\ stats = [ documents |-> 0, authors |-> 0, affiliations |-> 0, publications |-> 0 ]
    /\ pc = "connecting"
    /\ conn = 0
    /\ connected = FALSE
    /\ ops = {}
    /\ clear_batch_size = ClearBatch
    /\ deleted_total = 0
    /\ raw_papers = << >>
    /\ found = -1
    /\ lists = WriteLists(EmptyData)
    /\ kind = 9
    /\ i = 0
    /\ attempt = 0
    /\ outcomes = << >>
    /\ slept = 0
    /\ call = "none"
    /\ issued = << >>
    /\ committed = << >>
    /\ returned = -1
    /\ raised = "none"
    /\ report = "none"
    /\ store0 = EmptyStore
    /\ rerun = FALSE
    /\ prev_papers = << >>

\* The text "" of a field of the ResearchState, as against the text a node
\* stores there: Ok(summary) for the JSON text of a summary (or the answer of
\* the language model), and [tag |-> "error", val |-> text] for an error text.
EmptyText == [ tag |-> "empty" ]

\* initial_state of query (LLMpoweredRAG.py lines 219-226).
initial_state(research_query_) ==
    [ query       |-> research_query_,
      papers      |-> EmptyText,
      researchers |-> EmptyText,
      networks    |-> EmptyText,
      trends      |-> EmptyText,
      response    |-> EmptyText ]

\* No query is in progress.
NoQuery ==
    /\ wf_node = "none"
    /\ research_query = ""
    /\ state = initial_state("")
    /\ ran = << >>
    /\ result = None

\* In a run of the builder no analysis is called.
Init ==
    /\ KGInit
    /\ search_results = << >>
    /\ min_papers = 2
    /\ network_data = None
    /\ trends_data = None
    /\ trends_summary = None
    /\ NoQuery

\* The first kind from index k on whose list is not empty, 9 if there is none:
\* a loop over an empty list issues nothing.
FirstKind(ls, k) ==
    IF \E n \in k..8 : Len(ls[Kinds[n]]) > 0
    THEN CHOOSE n \in k..8 :
             /\ Len(ls[Kinds[n]]) > 0
             /\ \A m \in k..(n - 1) : Len(ls[Kinds[m]]) = 0
    ELSE 9

\* The kind of the batch that follows the batch at offset off of kind k.
NextKind(ls, k, off) ==
    IF off + SliceSize(Kinds[k]) < Len(ls[Kinds[k]]) THEN k ELSE FirstKind(ls, k + 1)

\* Its offset.
NextOffset(ls, k, off) ==
    IF off + SliceSize(Kinds[k]) < Len(ls[Kinds[k]]) THEN off + SliceSize(Kinds[k]) ELSE 0

\* Lines 473-480: the statistics process_papers sets before it returns.
FinalStats(ls) ==
    [ documents    |-> Len(ls.Document),
      authors      |-> Len(ls.Author),
      affiliations |-> Len(ls.Affiliation),
      publications |-> Len(ls.Publication) ]

\* Lines 602-613 and 617-619 of main: what it logs after process_papers.
MainReport(processed, exc) ==
    IF exc # "none" THEN "error"
    ELSE IF processed > 0 THEN "success" ELSE "none"

\* process_papers(papers) up to its first write: the filter, the
\* pre-processing loop and, when there is nothing to write, the return.
Begin(papers) ==
    /\ raw_papers' = papers
    /\ store0' = store
    /\ store' = store
    /\ i' = 0
    /\ attempt' = 0
    /\ outcomes' = << >>
    /\ slept' = 0
    /\ call' = "none"
    /\ issued' = << >>
    /\ committed' = << >>
    /\ IF FilterRaises(papers)
       THEN /\ pc' = "failed"
            /\ raised' = "AttributeError"
            /\ found' = -1
            /\ lists' = WriteLists(EmptyData)
            /\ kind' = 9
            /\ returned' = -1
            /\ stats' = stats
       ELSE LET birmingham_papers == BirminghamPapers(papers)
                ls == IF birmingham_papers = << >> THEN WriteLists(EmptyData)
                      ELSE WriteLists(PreProcess(EmptyData, birmingham_papers, 1))
            IN  /\ raised' = "none"
                /\ found' = Len(birmingham_papers)
                /\ lists' = ls
                /\ kind' = FirstKind(ls, 1)
                /\ IF birmingham_papers = << >>
                   THEN pc' = "done" /\ returned' = 0 /\ stats' = stats
                   ELSE IF FirstKind(ls, 1) = 9
                   THEN /\ pc' = "done"
                        /\ returned' = Len(ls.Document)
                        /\ stats' = FinalStats(ls)
                   ELSE pc' = "writing" /\ returned' = -1 /\ stats' = stats
    /\ report' = MainReport(returned', raised')
    /\ ops' = ops \cup { "create_schema", "process_papers" }
    /\ UNCHANGED << conn, connected, clear_batch_size, deleted_total >>
    /\ UNCHANGED avars

\* The first call of process_papers, on the empty store.
Call ==
    /\ pc = "idle"
    /\ \E papers \in Corpora : Begin(papers)
    /\ rerun' = FALSE
    /\ prev_papers' = << >>

\* A second call on the store the first call left, with the same corpus or
\* with one more paper.
CallAgain ==
    /\ pc = "done"
    /\ ~rerun
    /\ \E papers \in { raw_papers } \cup FollowUps : Begin(papers)
    /\ rerun' = TRUE
    /\ prev_papers' = raw_papers

\* The batch the call issues next.
Batch == Slice(lists[Kinds[kind]], i, SliceSize(Kinds[kind]))

\* The record of an attempt in outcomes and issued.
Attempted(outcome) ==
    /\ outcomes' = IF attempt = 0 THEN << outcome >> ELSE Append(outcomes, outcome)
    /\ issued' = IF attempt = 0
                 THEN Append(issued, [ kind |-> kind, i |-> i, after |-> Len(committed) ])
                 ELSE issued

\* An attempt of execute_query succeeds: the statement commits, the loop moves
\* to the next batch, and after the last batch process_papers sets the
\* statistics and returns.
AttemptOk ==
    /\ pc = "writing"
    /\ Attempted("ok")
    /\ call' = "returned"
    /\ slept' = IF attempt = 0 THEN 0 ELSE slept
    /\ store' = ApplyBatch(Kinds[kind], store, Batch, 1)
    /\ committed' = Append(committed, [ kind |-> kind, i |-> i ])
    /\ kind' = NextKind(lists, kind, i)
    /\ i' = NextOffset(lists, kind, i)
    /\ attempt' = 0
    /\ IF NextKind(lists, kind, i) = 9
       THEN /\ pc' = "done"
            /\ stats' = FinalStats(lists)
            /\ returned' = Len(lists.Document)
       ELSE UNCHANGED << pc, stats, returned >>
    /\ report' = MainReport(returned', "none")
    /\ UNCHANGED << raw_papers, found, lists, raised, store0, rerun, prev_papers >>
    /\ UNCHANGED << mainvars, avars >>

\* A faulty Handled: a bare except, which takes every exception.
HandledAny(outcome) == TRUE

\* Line 71: the except clause of execute_query takes ServiceUnavailable,
\* TransientError and NotALeader, and no other exception.
Handled(outcome) == outcome = "transient"

\* A faulty Retries: one retry too many (attempt < 3 in place of attempt < 2).
RetriesOnceMore(n) == n < MaxAttempts

\* Whether execute_query retries after a transient failure of attempt n.
Retries(n) == n < MaxAttempts - 1

\* A faulty StoreAfterRaise: the writes of the call are undone.
StoreRolledBack(st, st0) == st0

\* The store after an exception has left execute_query and process_papers:
\* neither handles it, so what the call committed since st0 stays.
StoreAfterRaise(st, st0) == st

\* An attempt fails with ServiceUnavailable, TransientError or NotALeader:
\* execute_query sleeps and retries, or re-raises on its last attempt.
AttemptTransient ==
    /\ pc = "writing"
    /\ Attempted("transient")
    /\ Handled("transient")
    /\ IF Retries(attempt)
       THEN /\ attempt' = attempt + 1
            /\ slept' = (IF attempt = 0 THEN 0 ELSE slept) + RetryDelay
            /\ call' = "pending"
            /\ UNCHANGED << pc, raised, report >>
       ELSE /\ attempt' = attempt
            /\ slept' = IF attempt = 0 THEN 0 ELSE slept
            /\ call' = "raised"
            /\ pc' = "failed"
            /\ raised' = "transient"
            /\ report' = MainReport(returned, "transient")
    /\ store' = IF Retries(attempt) THEN store ELSE StoreAfterRaise(store, store0)
    /\ UNCHANGED << stats, raw_papers, found, lists, kind, i, committed,
                    returned, store0, rerun, prev_papers >>
    /\ UNCHANGED << mainvars, avars >>

\* An attempt fails with any other exception: it leaves execute_query,
\* process_papers and the try block of main.
AttemptFatal ==
    /\ pc = "writing"
    /\ Attempted("fatal")
    /\ IF Handled("fatal") /\ Retries(attempt)
       THEN /\ attempt' = attempt + 1
            /\ slept' = (IF attempt = 0 THEN 0 ELSE slept) + RetryDelay
            /\ call' = "pending"
            /\ UNCHANGED << pc, raised, report, store >>
       ELSE /\ attempt' = attempt
            /\ slept' = IF attempt = 0 THEN 0 ELSE slept
            /\ call' = "raised"
            /\ pc' = "failed"
            /\ raised' = "fatal"
            /\ report' = MainReport(returned, "fatal")
            /\ store' = StoreAfterRaise(store, store0)
    /\ UNCHANGED << stats, raw_papers, found, lists, kind, i,
                    committed, returned, store0, rerun, prev_papers >>
    /\ UNCHANGED << mainvars, avars >>

(***************************************************************************)
(* connect (lines 34-57), called by __init__.                              *)
(***************************************************************************)
\* A faulty ConnectFailure: connect returns after its last failed attempt, and
\* main goes on with a driver that never answered.
ConnectFailureReturns == "idle"

\* Line 57: no attempt succeeded, connect raises; neither __init__ nor the
\* try block of main goes on, main logs the error (lines 617-619).
ConnectFailure == "unreachable"

\* What connect leaves of the run-local state: nothing has been called yet.
ConnectFrame ==
    UNCHANGED << store, stats, raw_papers, found, lists, kind, i, attempt,
                 outcomes, slept, call, issued, committed, returned, raised,
                 store0, rerun, prev_papers, ops, clear_batch_size,
                 deleted_total, avars >>

\* An attempt succeeds (lines 38-48): RETURN 1 answers and connect returns.
ConnectOk ==
    /\ pc = "connecting"
    /\ conn < MaxConnect
    /\ conn' = 0
    /\ connected' = TRUE
    /\ pc' = "idle"
    /\ report' = report
    /\ ConnectFrame

\* An attempt fails with an exception whose text does not name
\* NoDatabaseAccess (lines 50-55): connect sleeps and tries again, and raises
\* when the loop is over.
ConnectFailed ==
    /\ pc = "connecting"
    /\ conn < MaxConnect
    /\ conn' = conn + 1
    /\ connected' = FALSE
    /\ IF conn + 1 < MaxConnect
       THEN pc' = pc /\ report' = report
       ELSE pc' = ConnectFailure /\ report' = "error"
    /\ ConnectFrame

\* An attempt fails because the database is offline (lines 52-54): break, and
\* connect raises without another attempt.
ConnectNoAccess ==
    /\ pc = "connecting"
    /\ conn < MaxConnect
    /\ conn' = conn + 1
    /\ connected' = FALSE
    /\ pc' = ConnectFailure
    /\ report' = "error"
    /\ ConnectFrame

(***************************************************************************)
(* clear_database (lines 78-118).  It runs in a later run of main, option  *)
(* 1, on the store an earlier run left; the model follows that run to the  *)
(* return of clear_database.  The store of the model holds nodes and       *)
(* relationships only, so the SHOW / DROP CONSTRAINT statements of lines   *)
(* 84-92, whose failures are swallowed, change nothing in it.              *)
(***************************************************************************)
\* COUNT of MATCH (n).
AllNodes(st) ==
    Len(st.Document) + Len(st.Author) + Len(st.Affiliation) + Len(st.Publication)

\* The keys of the first n nodes of a label.
FirstKeys(nodes, key, n) == { nodes[j][key] : j \in 1..Min(n, Len(nodes)) }

\* The nodes of a label but the first n.
DropFirst(nodes, n) == SubSeq(nodes, Min(n, Len(nodes)) + 1, Len(nodes))

\* MATCH (n) WITH n LIMIT limit DETACH DELETE n: limit nodes, taken label by
\* label in creation order, leave the store with every relationship that
\* starts or ends at one of them.
DetachDelete(st, limit) ==
    LET nDoc   == Min(limit, Len(st.Document))
        nAuth  == Min(limit - nDoc, Len(st.Author))
        nAffil == Min(limit - nDoc - nAuth, Len(st.Affiliation))
        nPub   == Min(limit - nDoc - nAuth - nAffil, Len(st.Publication))
        docs   == FirstKeys(st.Document, "document_id", nDoc)
        auths  == FirstKeys(st.Author, "author_id", nAuth)
        affils == FirstKeys(st.Affiliation, "affiliation_id", nAffil)
        pubs   == FirstKeys(st.Publication, "publication_id", nPub)
    IN  [ Document        |-> DropFirst(st.Document, nDoc),
          Author          |-> DropFirst(st.Author, nAuth),
          Affiliation     |-> DropFirst(st.Affiliation, nAffil),
          Publication     |-> DropFirst(st.Publication, nPub),
          AUTHOR_OF       |-> { r \in st.AUTHOR_OF : r[1] \notin auths /\ r[2] \notin docs },
          AFFILIATED_WITH |-> { r \in st.AFFILIATED_WITH :
                                  r[1] \notin auths /\ r[2] \notin affils },
          PUBLISHED_IN    |-> { r \in st.PUBLISHED_IN : r[1] \notin docs /\ r[2] \notin pubs },
          CO_AUTHOR       |-> { e \in st.CO_AUTHOR : e.a1 \notin auths /\ e.a2 \notin auths } ]

\* RETURN COUNT(n) as deleted.
Deleted(st, limit) == Min(limit, AllNodes(st))

\* Line 113: batch_size = max(100, batch_size // 2).
Halved(size) == Max(MinClearBatch, size \div 2)

\* What the statements of the delete loop leave alone.
ClearFrame ==
    UNCHANGED << stats, raw_papers, found, lists, kind, i, attempt, outcomes,
                 slept, call, issued, committed, returned, raised, report,
                 store0, rerun, prev_papers, conn, connected, ops, avars >>

\* A new run of main with option 1 on the store of the run before: a new
\* BirminghamKG connects, and clear_database begins (lines 78-96).
ClearBegin ==
    /\ pc \in { "done", "failed" }
    /\ pc' = "clearing"
    /\ store' = store
    /\ store0' = store
    /\ stats' = [ documents |-> 0, authors |-> 0, affiliations |-> 0, publications |-> 0 ]
    /\ raw_papers' = << >>
    /\ found' = -1
    /\ lists' = WriteLists(EmptyData)
    /\ kind' = 9
    /\ i' = 0
    /\ attempt' = 0
    /\ outcomes' = << >>
    /\ slept' = 0
    /\ call' = "none"
    /\ issued' = << >>
    /\ committed' = << >>
    /\ returned' = -1
    /\ raised' = "none"
    /\ report' = "none"
    /\ rerun' = FALSE
    /\ prev_papers' = << >>
    /\ conn' = 0
    /\ connected' = TRUE
    /\ ops' = { "clear_database" }
    /\ clear_batch_size' = ClearBatch
    /\ deleted_total' = 0
    /\ UNCHANGED avars

\* The loop issues its DETACH DELETE statement (lines 100-103).
ClearIssue ==
    /\ pc = "clearing"
    /\ pc' = "deleting"
    /\ UNCHANGED << store, clear_batch_size, deleted_total >>
    /\ ClearFrame

\* The statement commits and reports its count (lines 105-110): the loop goes
\* on after a positive count and ends at zero.
ClearReturned ==
    /\ pc = "deleting"
    /\ store' = DetachDelete(store, clear_batch_size)
    /\ IF Deleted(store, clear_batch_size) > 0
       THEN /\ deleted_total' = deleted_total + Deleted(store, clear_batch_size)
            /\ pc' = "clearing"
       ELSE /\ deleted_total' = deleted_total
            /\ pc' = "cleared"
    /\ UNCHANGED clear_batch_size
    /\ ClearFrame

\* The statement fails with an exception whose text holds "Memory" (lines
\* 111-114): nothing is deleted, the batch is halved and the loop goes on.
ClearMemory ==
    /\ pc = "deleting"
    /\ clear_batch_size' = Halved(clear_batch_size)
    /\ pc' = "clearing"
    /\ UNCHANGED << store, deleted_total >>
    /\ ClearFrame

\* The statement fails with any other exception, the last re-raise of
\* execute_query included (lines 115-116): break, and clear_database returns.
ClearOther ==
    /\ pc = "deleting"
    /\ pc' = "cleared"
    /\ UNCHANGED << store, clear_batch_size, deleted_total >>
    /\ ClearFrame

Next ==
    \/ ConnectOk \/ ConnectFailed \/ ConnectNoAccess
    \/ Call \/ CallAgain \/ AttemptOk \/ AttemptTransient \/ AttemptFatal
    \/ ClearBegin \/ ClearIssue \/ ClearReturned \/ ClearMemory \/ ClearOther

Spec == Init /\ [][Next]_vars

\* The run is scheduled and the store answers every statement: the next
\* statement of the delete loop is issued, and an issued statement ends in one
\* of its three ways.  Nothing makes the store answer without a memory
\* failure.
FairSpec ==
    /\ Spec
    /\ WF_vars(ClearIssue)
    /\ WF_vars(ClearReturned \/ ClearMemory \/ ClearOther)

(***************************************************************************)
(* The analytics: the search has returned its records, and the analyses    *)
(* are called on them.                                                     *)
(***************************************************************************)
AnalyticsInit ==
    /\ KGInit
    /\ search_results \in ResultSets
    /\ min_papers \in MinPapers
    /\ network_data = None
    /\ trends_data = None
    /\ trends_summary = None
    /\ NoQuery

\* analyze_collaboration_network(research_area, min_papers)
AnalyzeNetwork ==
    /\ network_data = None
    /\ network_data' = analyze_collaboration_network(search_results, min_papers)
    /\ UNCHANGED << kgvars, search_results, min_papers, trends_data, trends_summary, wvars >>

\* analyze_research_trends(research_area, years_back), called on its own.
AnalyzeTrends ==
    /\ trends_data = None
    /\ trends_data' = analyze_research_trends(search_results)
    /\ UNCHANGED << kgvars, search_results, min_papers, network_data, trends_summary, wvars >>

\* _analyze_trends(state) of the research workflow: it calls
\* analyze_research_trends and writes the summary to state["trends"].
WorkflowAnalyzeTrends ==
    /\ trends_summary = None
    /\ trends_data' = analyze_research_trends(search_results)
    /\ trends_summary' = AnalyzeTrendsSummary(analyze_research_trends(search_results))
    /\ UNCHANGED << kgvars, search_results, min_papers, network_data, wvars >>

AnalyticsNext == AnalyzeNetwork \/ AnalyzeTrends \/ WorkflowAnalyzeTrends

Analytics == AnalyticsInit /\ [][AnalyticsNext]_vars

(***************************************************************************)
(* The research workflow (src/LLMpoweredRAG.py): query() builds the        *)
(* initial state and invokes the compiled graph, which runs its nodes      *)
(* along the edges of _build_workflow.  The search, the researcher finder  *)
(* and the language model are collaborators: a call of one returns or      *)
(* raises.  The search is ranked: a call with top_k = k returns the first  *)
(* k records of search_results.                                            *)
(***************************************************************************)
\* The questions asked.
Queries == { "deep learning for cancer detection", "federated privacy" }

\* A faulty Edge: analyze_networks leads to synthesize.
EdgeSkipsTrends(node) ==
    CASE node = "search_papers"    -> "find_researchers"
      [] node = "find_researchers" -> "analyze_networks"
      [] node = "analyze_networks" -> "synthesize"
      [] node = "analyze_trends"   -> "synthesize"
      [] node = "synthesize"       -> "END"

\* The edges of the graph (lines 53-58).
Edge(node) ==
    CASE node = "search_papers"    -> "find_researchers"
      [] node = "find_researchers" -> "analyze_networks"
      [] node = "analyze_networks" -> "analyze_trends"
      [] node = "analyze_trends"   -> "synthesize"
      [] node = "synthesize"       -> "END"

\* f"Error: {str(e)}"
ErrorText(e) == [ tag |-> "error", val |-> "Error: " \o e ]

\* semantic_search_with_authors(query, top_k)
Search(top_k) == SubSeq(search_results, 1, Min(top_k, Len(search_results)))

\* The summary _search_papers dumps (lines 66-80): the number of results and
\* an entry for each of the first five.
PapersSummary(results) ==
    [ found  |-> Len(results),
      papers |-> [ k \in 1..Min(5, Len(results)) |->
                     [ rank      |-> k,
                       title     |-> Get(results[k], "title", ""),
                       authors   |-> SubSeq(Get(results[k], "authors", << >>), 1,
                                            Min(3, Len(Get(results[k], "authors", << >>)))),
                       citations |-> Get(results[k], "citations", 0),
                       institution |-> Get(results[k], "main_affiliation", JStr("")) ] ] ]

\* The summary _analyze_networks dumps (lines 114-132), without the
\* communities and the key researchers, which networkx computes.
NetworkSummary(network) ==
    IF network.tag = "raise" THEN ErrorText(network.exc)
    ELSE Ok([ researchers    |-> Cardinality(DOMAIN network.val.graph.nodes),
              collaborations |-> Cardinality(DOMAIN network.val.graph.edges) ])

\* What a node does around its body: the node has run, and the graph goes on
\* along its edge.
Ran(node) ==
    /\ wf_node = node
    /\ ran' = Append(ran, node)
    /\ wf_node' = Edge(node)
    /\ UNCHANGED << kgvars, search_results, min_papers, research_query, result >>

\* query(research_query) up to the invocation of the graph (lines 213-229).
WorkflowInit ==
    /\ KGInit
    /\ search_results \in ResultSets
    /\ min_papers = 2
    /\ network_data = None
    /\ trends_data = None
    /\ trends_summary = None
    /\ research_query \in Queries
    /\ state = initial_state(research_query)
    /\ wf_node = "search_papers"
    /\ ran = << >>
    /\ result = None

\* _search_papers (lines 62-84)
SearchPapers ==
    /\ Ran("search_papers")
    /\ \E raises \in BOOLEAN :
          state' = [ state EXCEPT !.papers =
                       IF raises THEN ErrorText("search failed")
                       ELSE Ok(PapersSummary(Search(8))) ]
    /\ UNCHANGED << network_data, trends_data, trends_summary >>

\* _find_researchers (lines 86-108)
FindResearchers ==
    /\ Ran("find_researchers")
    /\ \E raises \in BOOLEAN :
          state' = [ state EXCEPT !.researchers =
                       IF raises THEN ErrorText("finder failed") ELSE Ok("researchers") ]
    /\ UNCHANGED << network_data, trends_data, trends_summary >>

\* _analyze_networks (lines 110-136): the search raises, or the analysis
\* returns or raises on what the search returned.
AnalyzeNetworks ==
    /\ Ran("analyze_networks")
    /\ \/ network_data' = Raise("search failed")
       \/ network_data' = analyze_collaboration_network(Search(50), 2)
    /\ state' = [ state EXCEPT !.networks = NetworkSummary(network_data') ]
    /\ UNCHANGED << trends_data, trends_summary >>

\* _analyze_trends (lines 138-171): the search raises, or the analysis
\* returns or raises on what the search returned.
AnalyzeTrendsNode ==
    /\ Ran("analyze_trends")
    /\ \/ trends_data' = Raise("search failed")
       \/ trends_data' = analyze_research_trends(Search(100))
    /\ trends_summary' = AnalyzeTrendsSummary(trends_data')
    /\ state' = [ state EXCEPT !.trends = trends_summary' ]
    /\ UNCHANGED network_data

\* _synthesize (lines 173-211)
Synthesize ==
    /\ Ran("synthesize")
    /\ \E raises \in BOOLEAN :
          state' = [ state EXCEPT !.response =
                       IF raises
                       THEN [ tag |-> "error", val |-> "Error in synthesis: model failed" ]
                       ELSE Ok("response.content") ]
    /\ UNCHANGED << network_data, trends_data, trends_summary >>

\* The graph has reached END: app.invoke returns the final state and query
\* returns its response (lines 229-230).  No node lets an exception out, so
\* the handler of lines 231-232 is not entered.
QueryReturns ==
    /\ wf_node = "END"
    /\ wf_node' = "returned"
    /\ result' = state["response"]
    /\ UNCHANGED << kgvars, search_results, min_papers, network_data, trends_data,
                    trends_summary, research_query, state, ran >>

WorkflowNext ==
    \/ SearchPapers
    \/ FindResearchers
    \/ AnalyzeNetworks
    \/ AnalyzeTrendsNode
    \/ Synthesize
    \/ QueryReturns

Workflow == WorkflowInit /\ [][WorkflowNext]_vars

\* app.invoke runs the nodes to the end: every node returns.
FairWorkflow == Workflow /\ WF_vars(WorkflowNext)

(***************************************************************************)
(* Vocabulary of the properties.                                           *)
(***************************************************************************)
\* The author identifiers of Papers.
AuthorIds == { "12", "3", "7", "9" }

\* The papers of a corpus that pass the institution filter and whose
\* extraction returns a document, in corpus order.
ExtractedPapers(papers) ==
    SelectSeq(papers,
              LAMBDA paper : /\ is_birmingham_affiliated(paper) = "True"
                             /\ extract_document_data(paper).tag = "ok")

\* The document identity of an extracted paper.
DocumentId(paper) == extract_document_data(paper).val.document_id

\* Whether author a is among the extracted authors of a paper.
HasAuthor(paper, a) ==
    \E j \in 1..Len(extract_authors_data(paper)) :
        extract_authors_data(paper)[j].author_id = a

\* The identities of the documents of a corpus on which a and b both appear.
SharedDocuments(papers, a, b) ==
    { DocumentId(ExtractedPapers(papers)[j]) :
        j \in { n \in 1..Len(ExtractedPapers(papers)) :
                  /\ HasAuthor(ExtractedPapers(papers)[n], a)
                  /\ HasAuthor(ExtractedPapers(papers)[n], b) } }

\* The identities of the documents of a corpus on which a appears.
DocumentsOf(papers, a) ==
    { DocumentId(ExtractedPapers(papers)[j]) :
        j \in { n \in 1..Len(ExtractedPapers(papers)) :
                  HasAuthor(ExtractedPapers(papers)[n], a) } }

\* Whether no document identity occurs in two records of the corpus.
NoRepeatedDocument(papers) ==
    \A m, n \in 1..Len(ExtractedPapers(papers)) :
        m # n => DocumentId(ExtractedPapers(papers)[m]) # DocumentId(ExtractedPapers(papers)[n])

\* The collaboration_count between a and b in a store: 0 without an edge.
Weight(st, a, b) ==
    IF \E e \in st.CO_AUTHOR : { e.a1, e.a2 } = { a, b }
    THEN (CHOOSE e \in st.CO_AUTHOR : { e.a1, e.a2 } = { a, b }).collaboration_count
    ELSE 0

\* The number of nodes of a label with a key.
NodeCount(nodes, key, k) == Cardinality({ j \in 1..Len(nodes) : nodes[j][key] = k })

(***************************************************************************)
(* C1  Ingesting the same corpus a second time leaves the store as the     *)
(* first ingestion left it: the same nodes with the same properties, the   *)
(* same relationships, and every CO_AUTHOR edge with the same              *)
(* collaboration_count.                                                    *)
(***************************************************************************)
C1_ReingestIsIdempotent ==
    (pc = "done" /\ rerun /\ raw_papers = prev_papers) => store = store0

\* A second ingestion of a corpus that wrote a CO_AUTHOR edge of weight 2 has
\* completed.
C1_Witness ==
    /\ pc = "done" /\ rerun /\ raw_papers = prev_papers
    /\ committed # << >>
    /\ \E e \in store.CO_AUTHOR : e.collaboration_count = 2

(***************************************************************************)
(* C2  CO_AUTHOR weight accumulates across runs: when two authors share    *)
(* the documents D1 in the corpus of the first run and the documents D2,   *)
(* disjoint from D1, in the corpus of the second, their edge has           *)
(* collaboration_count = |D1| + |D2| after the second run.  (Stated for    *)
(* corpora in which no document occurs twice.)                             *)
(***************************************************************************)
C2_WeightAccumulatesAcrossRuns ==
    ( /\ pc = "done" /\ rerun
      /\ NoRepeatedDocument(prev_papers) /\ NoRepeatedDocument(raw_papers) )
    => \A a, b \in AuthorIds :
         ( /\ a # b
           /\ SharedDocuments(prev_papers, a, b) \cap SharedDocuments(raw_papers, a, b) = {} )
         => Weight(store, a, b)
              = Cardinality(SharedDocuments(prev_papers, a, b))
                + Cardinality(SharedDocuments(raw_papers, a, b))

(***************************************************************************)
(* C3  After one run on the empty store, the collaboration_count of every  *)
(* pair of authors is the number of distinct documents on which both       *)
(* appear, also when a document occurs in several records.                 *)
(***************************************************************************)
C3_WeightIsSharedDocuments ==
    (pc = "done" /\ ~rerun)
    => \A a, b \in AuthorIds :
         a # b => Weight(store, a, b) = Cardinality(SharedDocuments(raw_papers, a, b))

(***************************************************************************)
(* C4  Kinds are written in the order Document, Author, Affiliation,       *)
(* Publication, AUTHOR_OF, AFFILIATED_WITH, PUBLISHED_IN, CO_AUTHOR: when  *)
(* a batch is issued, every batch of every earlier kind has committed.     *)
(***************************************************************************)
\* The place of a kind in the dependency order.
DependencyRank(name) ==
    CASE name = "Document"        -> 1
      [] name = "Author"          -> 2
      [] name = "Affiliation"     -> 3
      [] name = "Publication"     -> 4
      [] name = "AUTHOR_OF"       -> 5
      [] name = "AFFILIATED_WITH" -> 6
      [] name = "PUBLISHED_IN"    -> 7
      [] name = "CO_AUTHOR"       -> 8

\* The offsets of the batches of the list of a kind.
Offsets(name) ==
    { off \in 0..(Len(lists[name]) - 1) : off % SliceSize(name) = 0 }

C4_DependencyOrder ==
    \A n \in 1..Len(issued) :
      \A k \in 1..8 :
        DependencyRank(Kinds[k]) < DependencyRank(Kinds[issued[n].kind])
        => \A off \in Offsets(Kinds[k]) :
             \E m \in 1..issued[n].after : committed[m] = [ kind |-> k, i |-> off ]

\* A CO_AUTHOR batch has been issued after batches of all seven other kinds
\* committed.
C4_Witness ==
    /\ issued # << >>
    /\ Kinds[issued[Len(issued)].kind] = "CO_AUTHOR"
    /\ \A k \in 1..7 : \E m \in 1..Len(committed) : committed[m].kind = k

(***************************************************************************)
(* C5  execute_query makes at most 3 attempts: every attempt but the last  *)
(* failed transiently and was followed by one delay; it returns at the     *)
(* first success, raises at once on any other failure, and raises the      *)
(* third transient failure.                                                *)
(***************************************************************************)
C5_BoundedRetry ==
    LET n == Len(outcomes)
    IN  /\ n <= 3
        /\ \A m \in 1..(n - 1) : outcomes[m] = "transient"
        /\ call = "none" <=> n = 0
        /\ call = "pending" <=> (n > 0 /\ outcomes[n] = "transient" /\ n < 3)
        /\ call = "returned" <=> (n > 0 /\ outcomes[n] = "ok")
        /\ call = "raised" <=>
             (n > 0 /\ (outcomes[n] = "fatal" \/ (outcomes[n] = "transient" /\ n = 3)))
        /\ call = "pending" => slept = RetryDelay * n
        /\ call \in { "returned", "raised" } => slept = RetryDelay * (n - 1)

\* Three transient failures in a row have been raised to the caller.
C5_Witness ==
    /\ call = "raised"
    /\ outcomes = << "transient", "transient", "transient" >>
    /\ slept = 2 * RetryDelay

(***************************************************************************)
(* C6  When a batch fails fatally, every row of every batch committed      *)
(* before it is in the store, and the failed batch is the last one issued. *)
(***************************************************************************)
\* Whether a row of a kind is in a store.
RowPersisted(name, st, row) ==
    CASE name = "Document"        -> HasNode(st.Document, "document_id", row.document_id)
      [] name = "Author"          -> HasNode(st.Author, "author_id", row.author_id)
      [] name = "Affiliation"     ->
             HasNode(st.Affiliation, "affiliation_id", row.affiliation_id)
      [] name = "Publication"     ->
             HasNode(st.Publication, "publication_id", row.publication_id)
      [] name = "AUTHOR_OF"       -> << row.author_id, row.doc_id >> \in st.AUTHOR_OF
      [] name = "AFFILIATED_WITH" -> << row.author_id, row.affil_id >> \in st.AFFILIATED_WITH
      [] name = "PUBLISHED_IN"    -> << row.doc_id, row.pub_id >> \in st.PUBLISHED_IN
      [] name = "CO_AUTHOR"       ->
             \E e \in st.CO_AUTHOR :
                 /\ { e.a1, e.a2 } = { row.author1_id, row.author2_id }
                 /\ e.collaboration_count = row.count

\* Whether the exception that left the call came from the store.
FailedInBatch == pc = "failed" /\ raised \in { "transient", "fatal" }

C6_PartialProgress ==
    FailedInBatch
    => /\ \A n \in 1..Len(committed) :
            LET name  == Kinds[committed[n].kind]
                batch == Slice(lists[name], committed[n].i, SliceSize(name))
            IN  \A r \in 1..Len(batch) : RowPersisted(name, store, batch[r])
       /\ Len(issued) = Len(committed) + 1
       /\ \A n \in 1..Len(committed) :
            issued[n].kind = committed[n].kind /\ issued[n].i = committed[n].i
       /\ issued[Len(issued)].kind = kind /\ issued[Len(issued)].i = i

\* A relationship batch failed after three transient failures, with node and
\* relationship batches committed before it.
C6_Witness ==
    /\ FailedInBatch /\ raised = "transient"
    /\ Kinds[kind] = "AFFILIATED_WITH"
    /\ Len(committed) >= 5
    /\ store.AUTHOR_OF # {}

(***************************************************************************)
(* C7  When a batch fails fatally, the run ends by reporting partial       *)
(* success with the number of documents ingested before the failure.       *)
(***************************************************************************)
\* The Document nodes the call has created.
DocumentsIngested == Len(store.Document) - Len(store0.Document)

C7_PartialSuccessReported ==
    FailedInBatch => (report = "partial" /\ returned = DocumentsIngested)

(***************************************************************************)
(* C8  A malformed record is never fatal: process_papers does not raise    *)
(* because of one, and when it returns every well-formed record that       *)
(* passes the institution filter has its Document in the store.            *)
(***************************************************************************)
C8_MalformedNeverFatal ==
    /\ raised # "AttributeError"
    /\ pc = "done"
       => \A n \in 1..Len(ExtractedPapers(raw_papers)) :
            HasNode(store.Document, "document_id",
                    DocumentId(ExtractedPapers(raw_papers)[n]))

(***************************************************************************)
(* C9  An author identity that appears in n records of the batch, each     *)
(* with a document identity, yields exactly one Author node and an         *)
(* AUTHOR_OF relationship from it to each of the n Documents.              *)
(***************************************************************************)
C9_AuthorDedup ==
    pc = "done"
    => \A a \in AuthorIds :
         DocumentsOf(raw_papers, a) # {}
         => /\ NodeCount(store.Author, "author_id", a) = 1
            /\ \A d \in DocumentsOf(raw_papers, a) :
                 /\ NodeCount(store.Document, "document_id", d) = 1
                 /\ << a, d >> \in store.AUTHOR_OF

\* A run has completed in which one author appears on two distinct documents.
C9_Witness ==
    /\ pc = "done"
    /\ \E a \in AuthorIds :
         /\ Cardinality(DocumentsOf(raw_papers, a)) = 2
         /\ NodeCount(store.Author, "author_id", a) = 1
         /\ Cardinality({ r \in store.AUTHOR_OF : r[1] = a }) = 2

(***************************************************************************)
(* C10  Identity fallback: the identity of a Document is its DOI when that *)
(* is non-empty and else its source identifier; a record with neither is   *)
(* dropped (nothing derived from it is written), and it is counted: the    *)
(* numbers the run reports tell how many records were dropped for want of  *)
(* an identity.                                                            *)
(***************************************************************************)
\* The papers of a corpus that pass the institution filter.
Qualifying(papers) ==
    SelectSeq(papers, LAMBDA paper : is_birmingham_affiliated(paper) = "True")

\* Whether a paper has neither a DOI nor a source identifier.
NoIdentity(paper) ==
    /\ Get(paper, "prism:doi", "") = ""
    /\ Get(paper, "dc:identifier", "") \in { "", "SCOPUS_ID:" }

\* The qualifying papers of a corpus without an identity.
Unidentified(papers) == SelectSeq(Qualifying(papers), NoIdentity)

\* Every extracted paper has a Document keyed by its DOI, or without a DOI by
\* its source identifier.
C10_Fallback ==
    pc = "done"
    => \A n \in 1..Len(ExtractedPapers(raw_papers)) :
         LET paper == ExtractedPapers(raw_papers)[n]
             doi   == Get(paper, "prism:doi", "")
             sid   == Get(paper, "dc:identifier", "")
         IN  \E j \in 1..Len(store.Document) :
               /\ store.Document[j].doi = doi
               /\ sid \in { store.Document[j].scopus_id,
                            "SCOPUS_ID:" \o store.Document[j].scopus_id }
               /\ store.Document[j].document_id =
                    IF doi # "" THEN doi ELSE store.Document[j].scopus_id

\* The author, affiliation and venue that occur in PaperNoIdentity alone are
\* never written, and no Document has an empty identity.
C10_NotPersisted ==
    /\ ~HasNode(store.Author, "author_id", "9")
    /\ ~HasNode(store.Affiliation, "affiliation_id", "60002634")
    /\ ~HasNode(store.Publication, "publication_id", "name_lost_notes")
    /\ ~HasNode(store.Document, "document_id", "")
    /\ \A r \in store.AUTHOR_OF \cup store.AFFILIATED_WITH : r[1] # "9"
    /\ \A e \in store.CO_AUTHOR : "9" \notin { e.a1, e.a2 }

\* The count of dropped records can be read off what the run reports: the
\* records found by the filter less the documents returned.
C10_DroppedCounted ==
    (pc = "done" /\ Len(Unidentified(raw_papers)) > 0)
    => found - returned = Len(Unidentified(raw_papers))

C10_IdentityFallback == C10_Fallback /\ C10_NotPersisted /\ C10_DroppedCounted

(***************************************************************************)
(* C11  When clear_database has returned, the store holds no node and no   *)
(* relationship, whatever the outcomes of its statements were.             *)
(***************************************************************************)
C11_ClearedOnReturn == pc = "cleared" => store = EmptyStore

(***************************************************************************)
(* C12  clear_database terminates: once its delete loop has begun it       *)
(* leaves the loop, whatever memory failures the store signals.            *)
(***************************************************************************)
C12_ClearTerminates == (pc = "clearing") ~> (pc = "cleared")

(***************************************************************************)
(* C13  A fatal (non-transient) failure of the store is never retried: it  *)
(* is the last attempt of its execute_query, which raises it to            *)
(* process_papers with no delay after it; the batch is not committed and   *)
(* no other batch is issued.                                               *)
(***************************************************************************)
C13_FatalNotRetried ==
    \A n \in 1..Len(outcomes) :
        outcomes[n] = "fatal"
        => /\ n = Len(outcomes)
           /\ Cardinality({ m \in 1..Len(outcomes) : outcomes[m] = "fatal" }) = 1
           /\ call = "raised" /\ raised = "fatal" /\ pc = "failed"
           /\ attempt = n - 1
           /\ slept = RetryDelay * (n - 1)
           /\ \A m \in 1..Len(committed) :
                 ~ (committed[m].kind = kind /\ committed[m].i = i)
           /\ issued[Len(issued)].kind = kind /\ issued[Len(issued)].i = i

\* A fatal failure at the first attempt of a batch, after a committed batch.
C13_Witness ==
    /\ outcomes = << "fatal" >>
    /\ pc = "failed"
    /\ Len(committed) > 0

(***************************************************************************)
(* C14  The institution filter comes before extraction: every node,        *)
(* property value and relationship in the lists the call writes and in the *)
(* store is the one extracted from a record that passed                    *)
(* is_birmingham_affiliated; a record that failed it leaves nothing.       *)
(***************************************************************************)
\* What the call extracts from each paper of a sequence.
Extracted(passing) ==
    [ n \in 1..Len(passing) |->
        [ document     |-> extract_document_data(passing[n]).val,
          authors      |-> extract_authors_data(passing[n]),
          affiliations |-> extract_affiliations_data(passing[n]),
          publications |-> IF extract_publication_data(passing[n]).tag = "ok"
                           THEN << extract_publication_data(passing[n]).val >>
                           ELSE << >> ] ]

\* The pairs (x[key1], y[key2]) with x in field1 and y in field2 of one entry
\* of ex.
PairsOf(ex, field1, key1, field2, key2) ==
    UNION { { << ex[n][field1][j][key1], ex[n][field2][k][key2] >> :
                j \in 1..Len(ex[n][field1]), k \in 1..Len(ex[n][field2]) } :
            n \in 1..Len(ex) }

\* The entries of a field over all of ex.
AllOf(ex, field) ==
    UNION { { ex[n][field][j] : j \in 1..Len(ex[n][field]) } : n \in 1..Len(ex) }

\* The pairs (x[key], document_id) with x in a field of one entry of ex, and
\* the pairs the other way round.
WithDocument(ex, field, key) ==
    UNION { { << ex[n][field][j][key], ex[n].document.document_id >> :
                j \in 1..Len(ex[n][field]) } : n \in 1..Len(ex) }

FromDocument(ex, field, key) ==
    UNION { { << ex[n].document.document_id, ex[n][field][j][key] >> :
                j \in 1..Len(ex[n][field]) } : n \in 1..Len(ex) }

\* Whether the properties of the nodes and the ends of the relationships of a
\* store all come from the extractions ex.
FromPapers(st, ex) ==
        /\ \A j \in 1..Len(st.Document) :
              st.Document[j] \in { DocumentNode(ex[n].document) : n \in 1..Len(ex) }
        /\ \A j \in 1..Len(st.Author) :
              st.Author[j] \in { AuthorNode(a) : a \in AllOf(ex, "authors") }
        /\ \A j \in 1..Len(st.Affiliation) :
              st.Affiliation[j] \in { AffiliationNode(a) : a \in AllOf(ex, "affiliations") }
        /\ \A j \in 1..Len(st.Publication) :
              st.Publication[j] \in { PublicationNode(v) : v \in AllOf(ex, "publications") }
        /\ st.AUTHOR_OF \subseteq WithDocument(ex, "authors", "author_id")
        /\ st.AFFILIATED_WITH
              \subseteq PairsOf(ex, "authors", "author_id", "affiliations", "affiliation_id")
        /\ st.PUBLISHED_IN \subseteq FromDocument(ex, "publications", "publication_id")
        /\ \A e \in st.CO_AUTHOR :
              << e.a1, e.a2 >> \in PairsOf(ex, "authors", "author_id", "authors", "author_id")

\* Whether the entries of the lists a call writes all come from ex.
ListsFromPapers(ls, ex) ==
        /\ Range(ls.Document) \subseteq { ex[n].document : n \in 1..Len(ex) }
        /\ Range(ls.Author) \subseteq AllOf(ex, "authors")
        /\ Range(ls.Affiliation) \subseteq AllOf(ex, "affiliations")
        /\ Range(ls.Publication) \subseteq AllOf(ex, "publications")
        /\ \A j \in 1..Len(ls.AUTHOR_OF) :
              << ls.AUTHOR_OF[j].author_id, ls.AUTHOR_OF[j].doc_id >>
                \in WithDocument(ex, "authors", "author_id")
        /\ \A j \in 1..Len(ls.AFFILIATED_WITH) :
              << ls.AFFILIATED_WITH[j].author_id, ls.AFFILIATED_WITH[j].affil_id >>
                \in PairsOf(ex, "authors", "author_id", "affiliations", "affiliation_id")
        /\ \A j \in 1..Len(ls.PUBLISHED_IN) :
              << ls.PUBLISHED_IN[j].doc_id, ls.PUBLISHED_IN[j].pub_id >>
                \in FromDocument(ex, "publications", "publication_id")
        /\ \A j \in 1..Len(ls.CO_AUTHOR) :
              << ls.CO_AUTHOR[j].author1_id, ls.CO_AUTHOR[j].author2_id >>
                \in PairsOf(ex, "authors", "author_id", "authors", "author_id")

C14_FilterBeforeExtraction ==
    pc \in { "writing", "done", "failed" }
    => LET now    == Extracted(ExtractedPapers(raw_papers))
           before == IF prev_papers = << >> THEN << >>
                     ELSE Extracted(ExtractedPapers(prev_papers))
       IN  /\ ListsFromPapers(lists, now)
           /\ FromPapers(store, before \o now)

\* A call has returned whose corpus began with a paper of another institution
\* and held a paper that passed the filter and was written.
C14_Witness ==
    /\ pc = "done"
    /\ Len(raw_papers) = 2
    /\ raw_papers[1] = PaperOther
    /\ Len(store.Document) = 1
    /\ Len(store.Author) > 0

(***************************************************************************)
(* C15  connect makes at most 3 attempts; while no attempt has succeeded   *)
(* the run calls no store operation and writes nothing, and when connect   *)
(* gives up (3 failed attempts, or the database reported inaccessible) the *)
(* run ends with the error logged.                                         *)
(***************************************************************************)
C15_NoWriteUnconnected ==
    /\ conn <= MaxConnect
    /\ ~connected
       => /\ ops = {}
          /\ issued = << >>
          /\ store = EmptyStore
          /\ pc \in { "connecting", "unreachable" }
          /\ conn = MaxConnect => pc = "unreachable"
    /\ pc = "unreachable" => (~connected /\ conn >= 1 /\ report = "error")

\* connect has raised after three failed attempts.
C15_Witness == pc = "unreachable" /\ conn = MaxConnect

(***************************************************************************)
(* Vocabulary of the properties of the analytics.                          *)
(***************************************************************************)
\* The positions of the records of the result set that match the institution
\* and list at least two authors.
QualifyingRecords ==
    { n \in 1..Len(search_results) :
        /\ is_birmingham(search_results[n])
        /\ Len(Get(search_results[n], "authors", << >>)) >= 2 }

\* The names the result set lists.
ListedNames ==
    UNION { Range(Get(search_results[n], "authors", << >>)) :
            n \in 1..Len(search_results) } \ { "" }

\* The number of qualifying records that list a.
PaperCount(a) ==
    Cardinality({ n \in QualifyingRecords : a \in Range(search_results[n]["authors"]) })

\* The number of qualifying records that list both a and b.
CoOccurrences(a, b) ==
    Cardinality({ n \in QualifyingRecords :
                    { a, b } \subseteq Range(search_results[n]["authors"]) })

Connected(G) ==
    \A S \in SUBSET (DOMAIN G.nodes) :
        (S # {} /\ S # DOMAIN G.nodes)
        => \E a \in S : \E b \in (DOMAIN G.nodes) \ S : { a, b } \in DOMAIN G.edges

C17_EigenvectorOnlyIfConnected ==
    network_data.tag = "ok"
    => LET G == network_data.val.graph
           m == network_data.val.centrality_metrics
       IN  IF DOMAIN G.nodes = {} THEN DOMAIN m = {}
           ELSE /\ DOMAIN m.degree = DOMAIN G.nodes
                /\ DOMAIN m.betweenness = DOMAIN G.nodes
                /\ DOMAIN m.closeness = DOMAIN G.nodes
                /\ IF Connected(G) \/ Cardinality(DOMAIN G.nodes) = 1
                   THEN DOMAIN m.eigenvector = DOMAIN G.nodes
                   ELSE DOMAIN m.eigenvector = {}

\* A graph of two components: the eigenvector mapping is empty and degree
\* centrality is reported for its four nodes.
C17_Witness ==
    /\ network_data.tag = "ok"
    /\ DOMAIN network_data.val.graph.nodes = { "Ann", "Bob", "Dee", "Eve" }
    /\ DOMAIN network_data.val.graph.edges = { { "Ann", "Bob" }, { "Dee", "Eve" } }
    /\ DOMAIN network_data.val.centrality_metrics.eigenvector = {}
    /\ DOMAIN network_data.val.centrality_metrics.degree = { "Ann", "Bob", "Dee", "Eve" }

\* The positions of the records of the result set that match the institution
\* and have a year within the window.
DatedRecords ==
    { n \in 1..Len(search_results) :
        /\ is_birmingham(search_results[n])
        /\ Get(search_results[n], "year", << >>) # << >>
        /\ search_results[n]["year"][1] >= current_year - years_back }

\* The qualifying years, in ascending order.
QualifyingYears == Sorted({ search_results[n]["year"][1] : n \in DatedRecords })

\* The paper counts and the citation counts of the qualifying years.
PapersByYear ==
    [ k \in 1..Len(QualifyingYears) |->
        Cardinality({ n \in DatedRecords : search_results[n]["year"][1] = QualifyingYears[k] }) ]

CitationsByYear ==
    [ k \in 1..Len(QualifyingYears) |->
        Sum([ n \in 1..Len(search_results) |->
                IF n \in DatedRecords /\ search_results[n]["year"][1] = QualifyingYears[k]
                THEN Get(search_results[n], "citations", 0) ELSE 0 ],
            Len(search_results)) ]

\* The least-squares slope of ys against 0, 1, ..., as a fraction:
\* sum (x - mean x)(y - mean y) over sum (x - mean x)^2, both scaled by n^2.
LeastSquaresSlope(ys) ==
    LET n  == Len(ys)
        sx == Sum([ k \in 1..n |-> k - 1 ], n)
        sy == Sum(ys, n)
    IN  [ num |-> Sum([ k \in 1..n |-> (n * (k - 1) - sx) * (n * ys[k] - sy) ], n),
          den |-> Sum([ k \in 1..n |-> (n * (k - 1) - sx) * (n * (k - 1) - sx) ], n) ]

\* x = y for two fractions.
SameFraction(x, y) == x.num * y.den = y.num * x.den

(***************************************************************************)
(* C18  With two or more qualifying years, paper_trend and citation_trend  *)
(* are the least-squares slopes of the paper counts and of the citation    *)
(* counts of the years; with exactly two years paper_trend is the second   *)
(* count less the first.                                                   *)
(***************************************************************************)
C18_TrendIsLeastSquares ==
    (trends_data.tag = "ok" /\ Len(QualifyingYears) >= 2)
    => LET ta == trends_data.val.trend_analysis
       IN  /\ "paper_trend" \in DOMAIN ta
           /\ SameFraction(ta.paper_trend, LeastSquaresSlope(PapersByYear))
           /\ SameFraction(ta.citation_trend, LeastSquaresSlope(CitationsByYear))
           /\ Len(QualifyingYears) = 2
              => SameFraction(ta.paper_trend,
                              [ num |-> PapersByYear[2] - PapersByYear[1], den |-> 1 ])

\* What holds of C18: from three qualifying years on the two trends are the
\* least-squares slopes.
C18_FromThreeYears ==
    (trends_data.tag = "ok" /\ Len(QualifyingYears) >= 3)
    => LET ta == trends_data.val.trend_analysis
       IN  /\ SameFraction(ta.paper_trend, LeastSquaresSlope(PapersByYear))
           /\ SameFraction(ta.citation_trend, LeastSquaresSlope(CitationsByYear))

(***************************************************************************)
(* C19  The summary of the workflow says "growing" iff the paper_trend the *)
(* analysis reports is more than 0.1, and "stable" otherwise; from three   *)
(* years on that is the least-squares slope of the paper counts.  The      *)
(* counts 2, 2, 3, 5, 8 give a positive slope and "growing"; equal counts  *)
(* give the slope 0 and "stable".                                          *)
(***************************************************************************)
C19_GrowingIffSlopeAboveTenth ==
    trends_summary.tag = "ok"
    => LET ta    == trends_data.val.trend_analysis
           trend == trends_summary.val.trend
       IN  /\ trend \in { "growing", "stable" }
           /\ trend = "growing"
              <=> ("paper_trend" \in DOMAIN ta /\ 10 * ta.paper_trend.num > ta.paper_trend.den)
           /\ Len(QualifyingYears) >= 3
              => (trend = "growing"
                  <=> 10 * LeastSquaresSlope(PapersByYear).num
                        > LeastSquaresSlope(PapersByYear).den)
           /\ PapersByYear = << 2, 2, 3, 5, 8 >>
              => (ta.paper_trend.num > 0 /\ trend = "growing")
           /\ (Len(QualifyingYears) >= 2
               /\ \A k \in 1..Len(QualifyingYears) : PapersByYear[k] = PapersByYear[1])
              => (ta.paper_trend.num = 0 /\ trend = "stable")

\* The summary of the series 2, 2, 3, 5, 8 says "growing".
C19_Witness ==
    /\ trends_summary.tag = "ok"
    /\ PapersByYear = << 2, 2, 3, 5, 8 >>
    /\ trends_summary.val.trend = "growing"

\* The summary of the series 3, 3, 3, 3, 3 says "stable".
C19_WitnessFlat ==
    /\ trends_summary.tag = "ok"
    /\ PapersByYear = << 3, 3, 3, 3, 3 >>
    /\ trends_summary.val.trend = "stable"

(***************************************************************************)
(* C20  Emerging keywords are reported only with three or more qualifying  *)
(* years; the recent window is the last three of them and the earlier      *)
(* window the years before.  At most 10 keywords are reported, each with   *)
(* two or more recent hits and more recent hits than earlier hits, in      *)
(* order of non-increasing growth; a keyword that meets the conditions is  *)
(* left out only when 10 are reported, none of them with a smaller growth. *)
(* Recent hits 3 and 2 and earlier hits 1 and 5 of two keywords give the   *)
(* first alone, with growth 2.                                             *)
(***************************************************************************)
\* The years of the recent window and of the earlier window.
RecentYears ==
    Range(SubSeq(QualifyingYears, Len(QualifyingYears) - 2, Len(QualifyingYears)))

EarlierYears == Range(QualifyingYears) \ RecentYears

\* The dated records of the years ys whose title holds the keyword.
Hits(keyword, ys) ==
    Cardinality({ n \in DatedRecords :
                    /\ search_results[n]["year"][1] \in ys
                    /\ Contains(keyword, Lower(Get(search_results[n], "title", ""))) })

\* Whether a keyword meets the conditions of an emerging keyword.
MeetsConditions(keyword) ==
    /\ Len(QualifyingYears) >= 3
    /\ Hits(keyword, RecentYears) >= 2
    /\ Hits(keyword, RecentYears) > Hits(keyword, EarlierYears)

\* The growth of a keyword: recent hits less earlier hits, over the earlier
\* hits or over 1 when there are none; without an earlier window the earlier
\* hits count as 1.
GrowthRatio(keyword) ==
    LET earlier == IF EarlierYears = {} THEN 1 ELSE Hits(keyword, EarlierYears)
    IN  [ num |-> Hits(keyword, RecentYears) - earlier, den |-> Max(earlier, 1) ]

C20_EmergingKeywords ==
    trends_data.tag = "ok"
    => LET em       == trends_data.val.emerging_keywords
           reported == { em[k].keyword : k \in 1..Len(em) }
       IN  /\ Len(QualifyingYears) < 3 => em = << >>
           /\ Len(em) <= 10
           /\ Cardinality(reported) = Len(em)
           /\ \A k \in 1..Len(em) :
                 /\ MeetsConditions(em[k].keyword)
                 /\ em[k].recent_count = Hits(em[k].keyword, RecentYears)
                 /\ SameFraction(em[k].growth_rate, GrowthRatio(em[k].keyword))
           /\ \A k \in 1..(Len(em) - 1) : ~Less(em[k].growth_rate, em[k + 1].growth_rate)
           /\ \A keyword \in Range(research_keywords) \ reported :
                 MeetsConditions(keyword)
                 => /\ Len(em) = 10
                    /\ \A k \in 1..Len(em) : ~Less(em[k].growth_rate, GrowthRatio(keyword))
           /\ search_results = EmergingExample
              => /\ Hits("cancer", RecentYears) = 3 /\ Hits("cancer", EarlierYears) = 1
                 /\ Hits("covid", RecentYears) = 2 /\ Hits("covid", EarlierYears) = 5
                 /\ Len(em) = 1
                 /\ em[1].keyword = "cancer"
                 /\ SameFraction(em[1].growth_rate, [ num |-> 2, den |-> 1 ])

\* Twelve keywords meet the conditions: the ten reported begin with one of
\* growth 2 and end with one of growth 1, and two of growth 1 are left out.
C20_Witness ==
    /\ trends_data.tag = "ok"
    /\ Len(trends_data.val.emerging_keywords) = 10
    /\ Less(trends_data.val.emerging_keywords[10].growth_rate,
            trends_data.val.emerging_keywords[1].growth_rate)
    /\ Cardinality({ keyword \in Range(research_keywords) : MeetsConditions(keyword) }) = 12

(***************************************************************************)
(* C21  The earlier count of a reported keyword is floored at 1 in the     *)
(* emergence test and in the growth ratio alike, with or without an        *)
(* earlier window: the keyword has more recent hits than                   *)
(* max(earlier hits, 1) and its growth ratio is the recent hits less that  *)
(* floored count, over the floored count; with r recent hits and no        *)
(* earlier hit the ratio is r - 1.                                         *)
(***************************************************************************)
\* The earlier hits of a keyword, floored at 1.
FlooredEarlier(keyword) == Max(Hits(keyword, EarlierYears), 1)

C21_EarlierCountFloored ==
    trends_data.tag = "ok"
    => LET em == trends_data.val.emerging_keywords
       IN  \A k \in 1..Len(em) :
             /\ em[k].recent_count > FlooredEarlier(em[k].keyword)
             /\ SameFraction(em[k].growth_rate,
                             [ num |-> em[k].recent_count - FlooredEarlier(em[k].keyword),
                               den |-> FlooredEarlier(em[k].keyword) ])
             /\ Hits(em[k].keyword, EarlierYears) = 0
                => SameFraction(em[k].growth_rate,
                                [ num |-> em[k].recent_count - 1, den |-> 1 ])

\* What holds of C21: the floor applies without an earlier window, and to the
\* divisor alone with one.
C21_FloorOnlyWithoutWindow ==
    trends_data.tag = "ok"
    => LET em == trends_data.val.emerging_keywords
       IN  \A k \in 1..Len(em) :
             Hits(em[k].keyword, EarlierYears) = 0
             => SameFraction(em[k].growth_rate,
                             [ num |-> IF EarlierYears = {}
                                       THEN em[k].recent_count - 1
                                       ELSE em[k].recent_count,
                               den |-> 1 ])

(***************************************************************************)
(* C22  The analytics never raise to the caller: for every result set of   *)
(* the search, analyze_collaboration_network and analyze_research_trends   *)
(* return their result structure.                                          *)
(***************************************************************************)
C22_AnalyticsNeverRaise ==
    /\ network_data.tag # "raise"
    /\ trends_data.tag # "raise"

\* What holds of C22: an analysis raises only on a result set with a record
\* whose main_affiliation is null, and then it does.
C22_RaisesOnlyOnNullAffiliation ==
    LET null == \E n \in 1..Len(search_results) :
                    /\ "main_affiliation" \in DOMAIN search_results[n]
                    /\ search_results[n]["main_affiliation"] = JNull
    IN  /\ network_data # None => (network_data.tag = "raise" <=> null)
        /\ trends_data # None => (trends_data.tag = "raise" <=> null)

(***************************************************************************)
(* C23  The total papers and the total citations of the trend summary are  *)
(* the number of qualifying records and the sum of their citation counts,  *)
(* for every result set, one whose qualifying records fall in a single     *)
(* year included.                                                          *)
(***************************************************************************)
\* The sum of the citation counts of the qualifying records.
TotalCitations ==
    Sum([ n \in 1..Len(search_results) |->
            IF n \in DatedRecords THEN Get(search_results[n], "citations", 0) ELSE 0 ],
        Len(search_results))

C23_TotalsOfQualifyingRecords ==
    trends_summary.tag = "ok"
    => /\ trends_summary.val.total_papers = Cardinality(DatedRecords)
       /\ trends_summary.val.total_citations = TotalCitations

\* What holds of C23: the totals are those of the qualifying records from two
\* qualifying years on, and 0 below.
C23_TotalsFromTwoYears ==
    trends_summary.tag = "ok"
    => IF Len(QualifyingYears) >= 2
       THEN /\ trends_summary.val.total_papers = Cardinality(DatedRecords)
            /\ trends_summary.val.total_citations = TotalCitations
       ELSE /\ trends_summary.val.total_papers = 0
            /\ trends_summary.val.total_citations = 0

(***************************************************************************)
(* C24  When process_papers has completed its writes, its return value and *)
(* the statistics documents, authors, affiliations and publications are    *)
(* the numbers of distinct Document, Author, Affiliation and Publication   *)
(* identities the call persisted, also when a Document identity occurs in  *)
(* several records.                                                        *)
(***************************************************************************)
\* The identities of a label that the call wrote and the store holds.
PersistedIdentities(label, key) ==
    { lists[label][j][key] : j \in 1..Len(lists[label]) }
    \cap { store[label][j][key] : j \in 1..Len(store[label]) }

\* Whether process_papers has returned after its writes.
Completed == pc = "done" /\ found > 0

C24_StatsCountIdentities ==
    Completed
    => /\ returned = Cardinality(PersistedIdentities("Document", "document_id"))
       /\ stats.documents = Cardinality(PersistedIdentities("Document", "document_id"))
       /\ stats.authors = Cardinality(PersistedIdentities("Author", "author_id"))
       /\ stats.affiliations = Cardinality(PersistedIdentities("Affiliation", "affiliation_id"))
       /\ stats.publications = Cardinality(PersistedIdentities("Publication", "publication_id"))

\* What holds of C24: the authors, affiliations and publications are counted
\* by identity, the documents by record.
C24_DocumentsCountRecords ==
    Completed
    => /\ returned = Len(lists.Document)
       /\ stats.documents = Len(lists.Document)
       /\ returned >= Cardinality(PersistedIdentities("Document", "document_id"))
       /\ stats.authors = Cardinality(PersistedIdentities("Author", "author_id"))
       /\ stats.affiliations = Cardinality(PersistedIdentities("Affiliation", "affiliation_id"))
       /\ stats.publications = Cardinality(PersistedIdentities("Publication", "publication_id"))

(***************************************************************************)
(* C25  Every write process_papers issues carries at least one and at most *)
(* batch_size items (small_batch for CO_AUTHOR); the batches of a kind     *)
(* are consecutive slices of its list, issued in list order, each after    *)
(* the one before it has committed; and when the call has completed every  *)
(* item of every list is in exactly one committed batch.                   *)
(***************************************************************************)
\* The positions of its list that the batch b (a kind and an offset) carries.
Carried(b) ==
    { b.i + j : j \in 1..Len(Slice(lists[Kinds[b.kind]], b.i, SliceSize(Kinds[b.kind]))) }

C25_BoundedBatchesPartition ==
    /\ \A n \in 1..Len(issued) :
          /\ Cardinality(Carried(issued[n])) >= 1
          /\ Cardinality(Carried(issued[n])) <= SliceSize(Kinds[issued[n].kind])
          /\ Carried(issued[n]) \subseteq 1..Len(lists[Kinds[issued[n].kind]])
          /\ issued[n].after = n - 1
          /\ IF n = 1 \/ issued[n - 1].kind # issued[n].kind
             THEN issued[n].i = 0
             ELSE issued[n].i = issued[n - 1].i + SliceSize(Kinds[issued[n].kind])
          /\ n > 1 => issued[n - 1].kind <= issued[n].kind
    /\ \A m \in 1..Len(committed) :
          committed[m] = [ kind |-> issued[m].kind, i |-> issued[m].i ]
    /\ Completed
       => \A k \in 1..8 : \A p \in 1..Len(lists[Kinds[k]]) :
            Cardinality({ m \in 1..Len(committed) :
                            committed[m].kind = k /\ p \in Carried(committed[m]) }) = 1

\* A completed call that wrote a list in a full batch and a shorter last one.
C25_Witness ==
    /\ Completed
    /\ \E m \in 1..(Len(committed) - 1) :
          /\ committed[m].kind = committed[m + 1].kind
          /\ Cardinality(Carried(committed[m])) = SliceSize(Kinds[committed[m].kind])
          /\ Cardinality(Carried(committed[m + 1])) < SliceSize(Kinds[committed[m].kind])

(***************************************************************************)
(* C26  Last write wins: when the calls so far have completed, every       *)
(* Document, Author, Affiliation and Publication node has the attributes   *)
(* extracted from the last qualifying record, in processing order over the *)
(* calls, that holds its identity; and a call changes no node whose        *)
(* identity its records do not hold.                                       *)
(***************************************************************************)
\* The labels of the nodes, each with the key of its identity.
Labels ==
    [ Document    |-> "document_id",
      Author      |-> "author_id",
      Affiliation |-> "affiliation_id",
      Publication |-> "publication_id" ]

\* The node a statement writes for an extracted entity.
NodeOf(label, entity) ==
    CASE label = "Document"    -> DocumentNode(entity)
      [] label = "Author"      -> AuthorNode(entity)
      [] label = "Affiliation" -> AffiliationNode(entity)
      [] label = "Publication" -> PublicationNode(entity)

\* The entities of a label in the extractions ex from entry n on, in
\* processing order.
RECURSIVE Entities(_, _, _)
Entities(ex, label, n) ==
    IF n > Len(ex) THEN << >>
    ELSE ( CASE label = "Document"    -> << ex[n].document >>
             [] label = "Author"      -> ex[n].authors
             [] label = "Affiliation" -> ex[n].affiliations
             [] label = "Publication" -> ex[n].publications )
         \o Entities(ex, label, n + 1)

\* What the calls so far extracted from their qualifying records.
History ==
    ( IF prev_papers = << >> THEN << >> ELSE Extracted(ExtractedPapers(prev_papers)) )
    \o Extracted(ExtractedPapers(raw_papers))

\* The last of a sequence of entities that has the identity id.
LastSeen(entities, key, id) ==
    entities[CHOOSE j \in 1..Len(entities) :
                /\ entities[j][key] = id
                /\ \A k \in (j + 1)..Len(entities) : entities[k][key] # id]

C26_LastWriteWins ==
    pc = "done"
    => \A label \in DOMAIN Labels :
         LET key  == Labels[label]
             seen == Entities(History, label, 1)
             now  == Entities(Extracted(ExtractedPapers(raw_papers)), label, 1)
         IN  /\ { store[label][j][key] : j \in 1..Len(store[label]) }
                  = { seen[j][key] : j \in 1..Len(seen) }
             /\ \A j \in 1..Len(store[label]) :
                   /\ NodeCount(store[label], key, store[label][j][key]) = 1
                   /\ store[label][j]
                        = NodeOf(label, LastSeen(seen, key, store[label][j][key]))
             /\ \A j \in 1..Len(store0[label]) :
                   (\A k \in 1..Len(now) : now[k][key] # store0[label][j][key])
                   => store[label][j] = store0[label][j]

\* A second call has completed that changed the title of a Document, the
\* name of an Author, the city of an Affiliation and the name of a
\* Publication that the first call wrote.
C26_Witness ==
    /\ pc = "done" /\ rerun
    /\ \A label \in DOMAIN Labels :
          \E j \in 1..Len(store0[label]) :
             /\ store[label][j][Labels[label]] = store0[label][j][Labels[label]]
             /\ store[label][j] # store0[label][j]

(***************************************************************************)
(* C27  For every processed record with k >= 2 extracted authors the call  *)
(* emits k(k-1)/2 co-author occurrences for its Document: one for every    *)
(* unordered pair of distinct authors, none that pairs an author with      *)
(* itself.  The occurrences of a pair are aggregated whatever the order of *)
(* the two authors in the records: the list the call writes has one entry  *)
(* for the pair, with the number of records that list both.                *)
(***************************************************************************)
\* The co-author occurrences the call emits for a paper (lines 340-347).
Emitted(paper) == CoAuthorRels(extract_authors_data(paper), DocumentId(paper), 1)

\* The identities of the extracted authors of a paper.
AuthorsOf(paper) ==
    { extract_authors_data(paper)[j].author_id : j \in 1..Len(extract_authors_data(paper)) }

\* Whether the occurrences emitted for a paper are one per unordered pair of
\* distinct authors.
OncePerPair(paper) ==
    LET k  == Len(extract_authors_data(paper))
        em == Emitted(paper)
    IN  k >= 2
        => /\ Len(em) = (k * (k - 1)) \div 2
           /\ \A j \in 1..Len(em) :
                 /\ em[j].author1_id # em[j].author2_id
                 /\ em[j].doc_id = DocumentId(paper)
           /\ \A a \in AuthorsOf(paper) : \A b \in AuthorsOf(paper) \ { a } :
                 Cardinality({ j \in 1..Len(em) :
                                 { em[j].author1_id, em[j].author2_id } = { a, b } }) = 1

\* Whether the list of CO_AUTHOR rows has, for every pair of authors, one row
\* with the number of the given papers that list both, and no row otherwise.
Aggregated(rows, papers) ==
    /\ \A j \in 1..Len(rows) : rows[j].author1_id # rows[j].author2_id
    /\ \A a \in AuthorIds : \A b \in AuthorIds \ { a } :
          LET both == { n \in 1..Len(papers) : { a, b } \subseteq AuthorsOf(papers[n]) }
              of   == { j \in 1..Len(rows) : { rows[j].author1_id, rows[j].author2_id } = { a, b } }
          IN  /\ Cardinality(of) = IF both = {} THEN 0 ELSE 1
              /\ \A j \in of : rows[j].count = Cardinality(both)

C27_AllPairsOncePerDocument ==
    (pc \in { "writing", "done" } /\ found > 0)
    => /\ \A n \in 1..Len(ExtractedPapers(raw_papers)) :
             OncePerPair(ExtractedPapers(raw_papers)[n])
       /\ Aggregated(lists.CO_AUTHOR, ExtractedPapers(raw_papers))

\* Whether no paper lists an author twice.
NoRepeatedAuthor(papers) ==
    \A n \in 1..Len(papers) :
        Cardinality(AuthorsOf(papers[n])) = Len(extract_authors_data(papers[n]))

\* What holds of C27: the same, for the corpora in which no processed record
\* lists an author twice.
C27_WithoutRepeatedAuthor ==
    (pc \in { "writing", "done" } /\ found > 0
     /\ NoRepeatedAuthor(ExtractedPapers(raw_papers)))
    => /\ \A n \in 1..Len(ExtractedPapers(raw_papers)) :
             OncePerPair(ExtractedPapers(raw_papers)[n])
       /\ Aggregated(lists.CO_AUTHOR, ExtractedPapers(raw_papers))

\* Two records list Smith and Jones in opposite orders, and the call writes
\* one row for the pair, with count 2.
C27_OppositeOrders ==
    /\ pc = "done"
    /\ raw_papers = << PaperDoi, PaperScopus >>
    /\ \E j \in 1..Len(lists.CO_AUTHOR) :
          /\ { lists.CO_AUTHOR[j].author1_id, lists.CO_AUTHOR[j].author2_id } = { "3", "12" }
          /\ lists.CO_AUTHOR[j].count = 2

(***************************************************************************)
(* C28  A call of process_papers on records of which the institution       *)
(* filter passes none returns 0 at once: it issues no write, and the store *)
(* and the statistics stay as they were before the call.                   *)
(***************************************************************************)
\* Whether the filter rejects every paper of a corpus.
NonePasses(papers) ==
    \A n \in 1..Len(papers) : is_birmingham_affiliated(papers[n]) = "False"

\* A step that calls process_papers: from main, or again on the same store.
Called == pc \in { "idle", "done" } /\ pc' \in { "writing", "done", "failed" }

C28_NothingPassesNothingWritten ==
    [][ (Called /\ NonePasses(raw_papers'))
        => /\ pc' = "done"
           /\ returned' = 0
           /\ raised' = "none"
           /\ issued' = << >>
           /\ committed' = << >>
           /\ store' = store
           /\ stats' = stats ]_vars

\* A second call whose one record is of another institution has returned 0
\* and left the statistics and the store of the first call.
C28_Witness ==
    /\ pc = "done" /\ rerun
    /\ raw_papers = << PaperOther >>
    /\ returned = 0
    /\ issued = << >>
    /\ stats.documents > 0
    /\ store = store0
    /\ Len(store.Document) > 0

(***************************************************************************)
(* C29  For every query the workflow runs search_papers, find_researchers, *)
(* analyze_networks, analyze_trends and synthesize once each, in that      *)
(* order, and then ends.  A node changes its own field of the state alone: *)
(* a failure in it leaves an error text there, the query and the fields of *)
(* the other nodes stay as they are, and the later nodes still run; query  *)
(* returns, and what it returns is the text of the response field.         *)
(***************************************************************************)
\* The nodes in the order of the claim.
NodeOrder ==
    << "search_papers", "find_researchers", "analyze_networks", "analyze_trends",
       "synthesize" >>

\* The field of the state that a node writes.
FieldOf(node) ==
    CASE node = "search_papers"    -> "papers"
      [] node = "find_researchers" -> "researchers"
      [] node = "analyze_networks" -> "networks"
      [] node = "analyze_trends"   -> "trends"
      [] node = "synthesize"       -> "response"

\* The nodes that have run are the first of NodeOrder, each once; the field
\* of each holds a text it wrote, the error text of an analysis that raised;
\* the fields of the others are as query set them.
InOrder ==
    /\ ran = SubSeq(NodeOrder, 1, Len(ran))
    /\ wf_node = IF Len(ran) < Len(NodeOrder) THEN NodeOrder[Len(ran) + 1]
                 ELSE IF result = None THEN "END" ELSE "returned"
    /\ state["query"] = research_query
    /\ \A k \in 1..Len(NodeOrder) :
          IF k <= Len(ran)
          THEN state[FieldOf(NodeOrder[k])].tag \in { "ok", "error" }
          ELSE state[FieldOf(NodeOrder[k])] = EmptyText
    /\ Len(ran) >= 3 => (network_data.tag = "raise" <=> state["networks"].tag = "error")
    /\ Len(ran) >= 4 => (trends_data.tag = "raise" <=> state["trends"].tag = "error")
    /\ result # None
       => /\ ran = NodeOrder
          /\ result = state["response"]
          /\ result.tag \in { "ok", "error" }

\* A step changes no field of the state but that of the node that runs.
OwnFieldOnly ==
    \A f \in DOMAIN state :
        state'[f] # state[f] => (wf_node \in Range(NodeOrder) /\ f = FieldOf(wf_node))

C29_EveryStepOnceInOrder ==
    /\ []InOrder
    /\ [][OwnFieldOnly]_vars
    /\ <>(wf_node = "returned")

\* query has returned the answer of the model after the search and both
\* analyses failed.
C29_Witness ==
    /\ wf_node = "returned"
    /\ ran = NodeOrder
    /\ state["papers"].tag = "error"
    /\ state["networks"].tag = "error"
    /\ state["trends"].tag = "error"
    /\ state["researchers"].tag = "ok"
    /\ result = Ok("response.content")

=============================================================================
